---- MODULE Spec2Model ----
(***************************************************************************)
(* Delivery pipeline of the notification service: the in-memory priority   *)
(* queue and its workers (app/services/queue_service.py), the              *)
(* per-recipient circuit breaker and the retry planner                     *)
(* (app/utils/retry_handler.py), the token-bucket rate limiter             *)
(* (app/utils/rate_limiter.py) and the channel adapters (app/channels).    *)
(*                                                                         *)
(* Time is counted in milliseconds.  The workers, the retry timers and the *)
(* breaker run on one asyncio event loop: a handler runs without           *)
(* interruption from one suspension point (await) to the next, so each     *)
(* action below is one such stretch.  The HTTP endpoints are plain "def"   *)
(* functions, which the framework runs on threadpool threads: an admission *)
(* runs beside the event loop and beside other admissions.                 *)
(***************************************************************************)
EXTENDS Integers, Sequences, FiniteSets, TLC

(***************************************************************************)
(* Bounds of the model.                                                    *)
(***************************************************************************)
MaxNotifs == 2
NumWorkers == 2
NumClients == 2

(***************************************************************************)
(* Program constants.                                                      *)
(***************************************************************************)
FAILURE_THRESHOLD == 3
CB_COOLDOWN == 60
RATE_LIMIT_CAPACITY == 10
RATE_LIMIT_REFILL == 1
RATE_LIMIT_SLEEP_MS == 500

\* Optional values: None, or Some(x).
None == << >>
Some(x) == << x >>
Val(o) == o[1]

\* Seconds to milliseconds.
Ms(sec) == sec * 1000

SetMin(S) == CHOOSE x \in S : \A y \in S : x <= y
SetMax(S) == CHOOSE x \in S : \A y \in S : x >= y

Priorities == {"critical", "high", "normal", "low"}
Channels == {"email", "sms", "webhook", "push"}

\* The address a request of each channel is sent to: a phone number, a URL,
\* a mailbox, a device token.
Address ==
    [sms |-> "+15551234567", webhook |-> "https://example.org/hook",
     email |-> "user@example.org", push |-> "device-token"]

(***************************************************************************)
(* queue_service._priority_value                                           *)
(***************************************************************************)
PriorityValue(priority) ==
    CASE priority = "critical" -> 0
      [] priority = "high" -> 1
      [] priority = "normal" -> 2
      [] priority = "low" -> 3
      [] OTHER -> 2

(***************************************************************************)
(* retry_handler.RETRY_CONFIGS, get_retry_plan, RetryPlan.next_delay and   *)
(* backoff_with_jitter.  Delays are in seconds, as in the source; a        *)
(* function that draws a random number returns the set of its possible     *)
(* results (in milliseconds).                                              *)
(***************************************************************************)
RETRY_CONFIGS ==
    [critical |-> [max_attempts |-> 5, delays |-> <<1, 5, 15, 60, 300>>],
     high     |-> [max_attempts |-> 3, delays |-> <<5, 30, 120>>],
     normal   |-> [max_attempts |-> 2, delays |-> <<10, 60>>],
     low      |-> [max_attempts |-> 1, delays |-> << >>]]

GetRetryPlan(priority) ==
    IF priority \in DOMAIN RETRY_CONFIGS THEN RETRY_CONFIGS[priority]
    ELSE RETRY_CONFIGS["normal"]

BackoffWithJitter(base_delay, attempt) ==
    LET delay == Ms(base_delay) * (2 ^ (attempt - 1))
        jitter == delay \div 5
    IN  { IF d < 0 THEN 0 ELSE d : d \in (delay - jitter)..(delay + jitter) }

\* A next_delay whose fallback counts the attempts from the first one, for
\* comparison with NextDelay.
NextDelayFromFirstAttempt(plan, attempt_number) ==
    IF attempt_number <= 1 THEN {0}
    ELSE LET idx == attempt_number - 2
         IN  IF idx < Len(plan.delays) THEN {Ms(plan.delays[idx + 1])}
             ELSE LET base == IF Len(plan.delays) > 0
                              THEN plan.delays[Len(plan.delays)] ELSE 1
                  IN  BackoffWithJitter(base, attempt_number)

\* A next_delay that takes the delay one place further in the list, for
\* comparison with NextDelay.
NextDelayOneFurther(plan, attempt_number) ==
    IF attempt_number <= 1 THEN {0}
    ELSE IF attempt_number - 1 < Len(plan.delays)
         THEN {Ms(plan.delays[attempt_number])}
         ELSE BackoffWithJitter(1, attempt_number)

NextDelay(plan, attempt_number) ==
    IF attempt_number <= 1 THEN {0}
    ELSE LET idx == attempt_number - 2
         IN  IF idx < Len(plan.delays) THEN {Ms(plan.delays[idx + 1])}
             ELSE LET base == IF Len(plan.delays) > 0
                              THEN plan.delays[Len(plan.delays)] ELSE 1
                  IN  BackoffWithJitter(base, attempt_number - Len(plan.delays))

(***************************************************************************)
(* retry_handler.CircuitBreaker.  A breaker is a record; each method is an *)
(* operator from the breaker and the time of the call to the breaker after *)
(* the call (allow_request: and its result).                               *)
(***************************************************************************)
NewCircuitBreaker(cooldown) ==
    [failure_threshold |-> FAILURE_THRESHOLD,
     cooldown_seconds |-> cooldown,
     state |-> "closed",
     failure_count |-> 0,
     opened_at |-> None,
     half_open_probe_in_flight |-> FALSE]

\* A success that leaves the probe flag as it is, for comparison with
\* OnSuccess.
OnSuccessKeepingProbe(b) ==
    [b EXCEPT !.state = "closed", !.failure_count = 0, !.opened_at = None]

OnSuccess(b) ==
    [b EXCEPT !.state = "closed",
              !.failure_count = 0,
              !.opened_at = None,
              !.half_open_probe_in_flight = FALSE]

\* A breaker that counts the failure of a probe as well, for comparison
\* with OnFailure.
OnFailureAccumulating(b, t) ==
    IF b.state = "half_open" \/ b.failure_count + 1 >= b.failure_threshold
    THEN [b EXCEPT !.failure_count = b.failure_count + 1,
                   !.state = "open",
                   !.opened_at = Some(t),
                   !.half_open_probe_in_flight = FALSE]
    ELSE [b EXCEPT !.failure_count = b.failure_count + 1]

\* A breaker that counts failures and never opens, for comparison with
\* OnFailure.
OnFailureCountingOnly(b, t) == [b EXCEPT !.failure_count = b.failure_count + 1]

OnFailure(b, t) ==
    IF b.state = "half_open"
    THEN [b EXCEPT !.state = "open",
                   !.opened_at = Some(t),
                   !.half_open_probe_in_flight = FALSE,
                   !.failure_count = SetMax({b.failure_count, b.failure_threshold})]
    ELSE IF b.failure_count + 1 >= b.failure_threshold
         THEN [b EXCEPT !.failure_count = b.failure_count + 1,
                        !.state = "open",
                        !.opened_at = Some(t)]
         ELSE [b EXCEPT !.failure_count = b.failure_count + 1]

RECURSIVE AllowRequest(_, _)
AllowRequest(b, t) ==
    IF b.state = "closed" THEN [ok |-> TRUE, cb |-> b]
    ELSE IF b.state = "open" THEN
        IF b.opened_at = None
        THEN [ok |-> FALSE, cb |-> [b EXCEPT !.opened_at = Some(t)]]
        ELSE IF t - Val(b.opened_at) >= Ms(b.cooldown_seconds)
             THEN AllowRequest([b EXCEPT !.state = "half_open",
                                         !.half_open_probe_in_flight = FALSE], t)
             ELSE [ok |-> FALSE, cb |-> b]
    ELSE IF b.state = "half_open" THEN
        IF ~b.half_open_probe_in_flight
        THEN [ok |-> TRUE, cb |-> [b EXCEPT !.half_open_probe_in_flight = TRUE]]
        ELSE [ok |-> FALSE, cb |-> b]
    ELSE [ok |-> FALSE, cb |-> b]

(***************************************************************************)
(* rate_limiter.TokenBucket and RateLimiter.  Tokens are counted in        *)
(* thousandths, so that tokens + elapsed * refill_rate is exact with the   *)
(* elapsed time in milliseconds and the rate in tokens per second.         *)
(***************************************************************************)
NewTokenBucket(capacity, refill_rate, t) ==
    [capacity |-> capacity, refill_rate |-> refill_rate,
     tokens |-> capacity * 1000, last_refill |-> t]

\* A try_consume whose refusal empties the bucket, for comparison with
\* TryConsume.
TryConsumeChargingRefusal(bucket, t, amount) ==
    LET elapsed == t - bucket.last_refill
        refilled == IF elapsed > 0
                    THEN [bucket EXCEPT
                            !.tokens = SetMin({bucket.capacity * 1000,
                                               bucket.tokens + elapsed * bucket.refill_rate}),
                            !.last_refill = t]
                    ELSE bucket
    IN  IF refilled.tokens >= amount * 1000
        THEN [ok |-> TRUE, bucket |-> [refilled EXCEPT !.tokens = refilled.tokens - amount * 1000]]
        ELSE [ok |-> FALSE, bucket |-> [refilled EXCEPT !.tokens = 0]]

\* A try_consume that tests the tokens before it refills, for comparison with
\* TryConsume.
TryConsumeBeforeRefill(bucket, t, amount) ==
    LET elapsed == t - bucket.last_refill
        ok == bucket.tokens >= amount * 1000
        taken == IF ok THEN [bucket EXCEPT !.tokens = @ - amount * 1000] ELSE bucket
    IN  [ok |-> ok,
         bucket |-> IF elapsed > 0
                    THEN [taken EXCEPT
                            !.tokens = SetMin({bucket.capacity * 1000,
                                               taken.tokens + elapsed * bucket.refill_rate}),
                            !.last_refill = t]
                    ELSE taken]

\* A try_consume whose refill is not limited to the capacity, for comparison
\* with TryConsume.
TryConsumeUncapped(bucket, t, amount) ==
    LET elapsed == t - bucket.last_refill
        refilled == IF elapsed > 0
                    THEN [bucket EXCEPT
                            !.tokens = bucket.tokens + elapsed * bucket.refill_rate,
                            !.last_refill = t]
                    ELSE bucket
    IN  IF refilled.tokens >= amount * 1000
        THEN [ok |-> TRUE, bucket |-> [refilled EXCEPT !.tokens = refilled.tokens - amount * 1000]]
        ELSE [ok |-> FALSE, bucket |-> refilled]

TryConsume(bucket, t, amount) ==
    LET elapsed == t - bucket.last_refill
        refilled == IF elapsed > 0
                    THEN [bucket EXCEPT
                            !.tokens = SetMin({bucket.capacity * 1000,
                                               bucket.tokens + elapsed * bucket.refill_rate}),
                            !.last_refill = t]
                    ELSE bucket
    IN  IF refilled.tokens >= amount * 1000
        THEN [ok |-> TRUE, bucket |-> [refilled EXCEPT !.tokens = refilled.tokens - amount * 1000]]
        ELSE [ok |-> FALSE, bucket |-> refilled]

\* RateLimiter.allow(key, amount) on the limiter rl (capacity, refill_rate, buckets).
RateLimiterAllow(rl, key, t, amount) ==
    LET bucket == IF key \in DOMAIN rl.buckets THEN rl.buckets[key]
                  ELSE NewTokenBucket(rl.capacity, rl.refill_rate, t)
        res == TryConsume(bucket, t, amount)
    IN  [ok |-> res.ok,
         rl |-> [rl EXCEPT !.buckets =
                    [k \in DOMAIN rl.buckets \cup {key} |->
                        IF k = key THEN res.bucket ELSE rl.buckets[k]]]]

(***************************************************************************)
(* The channel adapters (app/channels/*.py): what a send can end in, and   *)
(* the message of the error it raises.  "unexpected" is an exception that  *)
(* is neither PermanentChannelError nor TransientChannelError.             *)
(***************************************************************************)
AdapterOutcomes(channel) ==
    CASE channel = "sms" -> {"ok", "permanent", "transient"}
      [] channel = "push" -> {"ok", "permanent", "transient"}
      [] channel = "webhook" -> {"ok", "permanent", "transient", "unexpected"}
      [] channel = "email" -> {"ok", "permanent", "transient", "unexpected"}
      [] OTHER -> {"permanent"}

PermanentMessage(channel) ==
    CASE channel = "sms" -> "Invalid phone number format"
      [] channel = "push" -> "Invalid device token"
      [] channel = "webhook" -> "Webhook responded with 400"
      [] channel = "email" -> "Invalid email recipient"
      [] OTHER -> "Channel not supported"

TransientMessage(channel) ==
    CASE channel = "sms" -> "Carrier temporary failure"
      [] channel = "push" -> "Push provider temporary failure"
      [] channel = "webhook" -> "Webhook server error 500"
      [] OTHER -> "SMTP error"

UnexpectedMessage == "unexpected: error"


VARIABLES
    env,                \* the environment: the configuration, the requests the clients
                        \* send and how the remote ends answer (never changes)
    now,                \* the clock, in milliseconds
    notifs,             \* table notifications: tracking_id -> row
    delivery_attempts,  \* table delivery_attempts: tracking_id -> its rows, as inserted
    templates,          \* table templates: a set of rows
    ready_queue,        \* _ready_queue: the entries of the heap
    seq_counter,        \* _seq_counter
    clients,            \* the HTTP threads running enqueue_notification
    workers,            \* the _worker_loop tasks
    circuit_breakers,   \* _circuit_breakers: recipient -> breaker
    rate_limiter,       \* _rate_limiter: None or Some(limiter)
    timers,             \* the pending _delayed_requeue tasks
    harness,            \* the calls made on a component driven alone (SpecCB,
                        \* SpecRetryPlan, SpecRateLimiter)
    schedules,          \* table scheduled_notifications: schedule_id -> row
    scheduler           \* the _scheduler_loop task, and what its scans enqueued

vars == <<env, now, notifs, delivery_attempts, templates, ready_queue, seq_counter,
          clients, workers, circuit_breakers, rate_limiter, timers, harness,
          schedules, scheduler>>

Clients == 1..env.http_threads
WorkerIds == 1..env.queue_workers

IdleClient == [pc |-> "idle", tracking_id |-> 0, priority |-> "normal"]
\* A worker: where it is (pc) and the locals of _worker_loop and
\* _process_tracking_id.  probe is not a local of the program: it tells that
\* allow_request admitted this processing as the probe of a half-open breaker.
IdleWorker == [pc |-> "idle", priority |-> 0, seq |-> 0, tracking_id |-> 0,
               attempt_number |-> 0, start |-> 0, wake_at |-> 0, probe |-> FALSE]

\* The requests of the workload: inline content, every channel (each to its
\* address) and every priority.
InlineRequests ==
    {[channel |-> c, recipient |-> Address[c], priority |-> p,
      template_id |-> None, variables |-> {}] : c \in Channels, p \in Priorities}

(***************************************************************************)
(* template_service.TemplateService.render and queue_service.              *)
(* _render_content: "ok", or the failure.  A template row carries the      *)
(* names it requires (variables) and the names its text refers to          *)
(* (referenced): a name referred to and not supplied is an undefined       *)
(* reference under StrictUndefined.                                        *)
(***************************************************************************)
TemplateRender(tpl, variables) ==
    IF \E v \in tpl.variables : v \notin variables THEN "missing_variables"
    ELSE IF \E v \in tpl.referenced : v \notin variables THEN "undefined_reference"
    ELSE "ok"

\* A lookup by template_id alone, for comparison with RenderContent.
RenderByIdOnly(tpls, req) ==
    IF req.template_id # None
    THEN LET by_id == {t \in tpls : t.template_id = Val(req.template_id)}
         IN  IF by_id = {} THEN "not_found"
             ELSE TemplateRender(CHOOSE t \in by_id : TRUE, req.variables)
    ELSE "ok"

RenderContent(tpls, req) ==
    IF req.template_id # None
    THEN LET by_id == {t \in tpls : t.template_id = Val(req.template_id)}
             by_name == {t \in tpls : t.name = Val(req.template_id) /\ t.active}
             found == IF by_id # {} THEN by_id ELSE by_name
         IN  IF found = {} THEN "not_found"
             ELSE TemplateRender(CHOOSE t \in found : TRUE, req.variables)
    ELSE "ok"

\* Variants of record_delivery_attempt, for comparison with
\* RecordDeliveryAttempt: one that leaves the attempts field alone, one that
\* leaves failure_reason alone.
RecordKeepingAttempts(nt, da, tracking_id, attempt_number, status, latency_ms, error_message, t) ==
    LET attempt == [attempt_number |-> attempt_number, status |-> status,
                    error_message |-> error_message, latency_ms |-> latency_ms]
        da2 == [k \in DOMAIN da \cup {tracking_id} |->
                   IF k = tracking_id
                   THEN Append(IF k \in DOMAIN da THEN da[k] ELSE << >>, attempt)
                   ELSE da[k]]
        n2 == IF status = "delivered"
              THEN [nt[tracking_id] EXCEPT !.status = "delivered",
                                           !.delivered_at = Some(t),
                                           !.failure_reason = None]
              ELSE [nt[tracking_id] EXCEPT !.status = status,
                                           !.failure_reason = error_message]
    IN  [notifs |-> [nt EXCEPT ![tracking_id] = n2], delivery_attempts |-> da2]

RecordKeepingReason(nt, da, tracking_id, attempt_number, status, latency_ms, error_message, t) ==
    LET attempt == [attempt_number |-> attempt_number, status |-> status,
                    error_message |-> error_message, latency_ms |-> latency_ms]
        da2 == [k \in DOMAIN da \cup {tracking_id} |->
                   IF k = tracking_id
                   THEN Append(IF k \in DOMAIN da THEN da[k] ELSE << >>, attempt)
                   ELSE da[k]]
        n1 == [nt[tracking_id] EXCEPT
                  !.attempts = SetMax({nt[tracking_id].attempts, attempt_number})]
        n2 == IF status = "delivered"
              THEN [n1 EXCEPT !.status = "delivered", !.delivered_at = Some(t)]
              ELSE [n1 EXCEPT !.status = status]
    IN  [notifs |-> [nt EXCEPT ![tracking_id] = n2], delivery_attempts |-> da2]

(***************************************************************************)
(* queue_service.record_delivery_attempt: the two tables after the call.   *)
(* Of the timestamps only delivered_at is kept: created_at,                *)
(* last_attempt_at and attempted_at are written and never read by the      *)
(* pipeline.                                                               *)
(***************************************************************************)
RecordDeliveryAttempt(nt, da, tracking_id, attempt_number, status, latency_ms, error_message, t) ==
    LET attempt == [attempt_number |-> attempt_number, status |-> status,
                    error_message |-> error_message, latency_ms |-> latency_ms]
        da2 == [k \in DOMAIN da \cup {tracking_id} |->
                   IF k = tracking_id
                   THEN Append(IF k \in DOMAIN da THEN da[k] ELSE << >>, attempt)
                   ELSE da[k]]
    IN  IF tracking_id \in DOMAIN nt
        THEN LET n1 == [nt[tracking_id] EXCEPT
                          !.attempts = SetMax({nt[tracking_id].attempts, attempt_number})]
                 n2 == IF status = "delivered"
                       THEN [n1 EXCEPT !.status = "delivered",
                                       !.delivered_at = Some(t),
                                       !.failure_reason = None]
                       ELSE IF status \in {"failed", "bounced"}
                       THEN [n1 EXCEPT !.status = status,
                                       !.failure_reason = error_message]
                       ELSE n1
             IN  [notifs |-> [nt EXCEPT ![tracking_id] = n2], delivery_attempts |-> da2]
        ELSE [notifs |-> nt, delivery_attempts |-> da2]

(***************************************************************************)
(* queue_service._enqueue_ready, run without interruption (a caller on the *)
(* event loop): the queue after the push.  ord is not a field of the       *)
(* program's entry: it orders the entries of the queue by the time of      *)
(* their push.                                                             *)
(***************************************************************************)
Entry(priority, seq, tracking_id) ==
    [priority_value |-> PriorityValue(priority), seq |-> seq, tracking_id |-> tracking_id,
     ord |-> 1 + SetMax({0} \cup {e.ord : e \in ready_queue})]

EnqueueReady(tracking_id, priority) ==
    /\ seq_counter' = seq_counter + 1
    /\ ready_queue' = ready_queue \cup {Entry(priority, seq_counter + 1, tracking_id)}

\* No call made yet on the breaker driven alone.  failures counts the
\* on_failure calls since the last on_success; claimed tells that an
\* allow_request returned true on a breaker that was not closed and that no
\* on_success or on_failure was called since.
NoCalls == [calls |-> 0, op |-> "new", result |-> TRUE, failures |-> 0, claimed |-> FALSE]

\* The scheduler task before its first scan.  scans, fired and failed are
\* not state of the program: the number of scans made, the enqueues made by
\* the scans (schedule, the send_at it was due at, the notification and the
\* scan) and the schedules whose processing raised in the last scan.
NewScheduler == [pc |-> "scan", scans |-> 0, fired |-> << >>, failed |-> {}]

(***************************************************************************)
(* The state after construction: no rows, an empty queue, idle threads,    *)
(* workers started (start_queue_workers) and waiting on the queue.         *)
(***************************************************************************)
InitState(e) ==
    /\ env = e
    /\ now = 0
    /\ notifs = << >>
    /\ delivery_attempts = << >>
    /\ templates = e.templates
    /\ ready_queue = {}
    /\ seq_counter = 0
    /\ clients = [c \in 1..e.http_threads |-> IdleClient]
    /\ workers = [w \in 1..e.queue_workers |-> IdleWorker]
    /\ circuit_breakers = << >>
    /\ rate_limiter = IF e.rate_limit_enabled
                      THEN Some([capacity |-> e.rate_limit_capacity,
                                 refill_rate |-> e.rate_limit_refill,
                                 buckets |-> << >>])
                      ELSE None
    /\ timers = {}
    /\ harness = NoCalls
    /\ schedules = << >>
    /\ scheduler = NewScheduler

\* The default environment: no rate limiter, CB_COOLDOWN 60, MaxNotifs
\* requests by SMS or by webhook.  requests[i] is the set of the requests
\* the i-th call of enqueue_notification may carry.
DefaultEnv ==
    [http_threads |-> NumClients,
     queue_workers |-> NumWorkers,
     requests |-> [i \in 1..MaxNotifs |->
                      {r \in InlineRequests : r.channel \in {"sms", "webhook"}}],
     outcomes |-> {"ok", "permanent", "transient", "unexpected"},
     templates |-> {},
     schedule_requests |-> << >>,
     rate_limit_enabled |-> FALSE,
     rate_limit_capacity |-> RATE_LIMIT_CAPACITY,
     rate_limit_refill |-> RATE_LIMIT_REFILL,
     cb_cooldown |-> CB_COOLDOWN]

Init == InitState(DefaultEnv)

(***************************************************************************)
(* queue_service.enqueue_notification on an HTTP thread, in two steps.     *)
(* ClientPersist: the row is created and committed and _enqueue_ready      *)
(* increments _seq_counter.  ClientPut: the thread reads _seq_counter      *)
(* again for the entry and pushes it.  Other threads run in between.       *)
(***************************************************************************)
NewRow(req) ==
    [channel |-> req.channel, recipient |-> req.recipient, priority |-> req.priority,
     template_id |-> req.template_id, variables |-> req.variables,
     status |-> "queued", attempts |-> 0, delivered_at |-> None, failure_reason |-> None]

\* An admission that pushes the entry of a row it has not committed, for
\* comparison with ClientPersist.
ClientPersistUncommitted(c) ==
    /\ clients[c].pc = "idle"
    /\ Len(notifs) < Len(env.requests)
    /\ \E req \in env.requests[Len(notifs) + 1] :
         clients' = [clients EXCEPT ![c] =
                        [pc |-> "put", tracking_id |-> Len(notifs) + 1,
                         priority |-> req.priority]]
    /\ seq_counter' = seq_counter + 1
    /\ UNCHANGED <<env, schedules, scheduler, harness, now, notifs, delivery_attempts,
                   templates, ready_queue, workers, circuit_breakers, rate_limiter, timers>>

ClientPersist(c) ==
    /\ clients[c].pc = "idle"
    /\ Len(notifs) < Len(env.requests)
    /\ \E req \in env.requests[Len(notifs) + 1] :
         LET tracking_id == Len(notifs) + 1
         IN  /\ notifs' = Append(notifs, NewRow(req))
             /\ clients' = [clients EXCEPT ![c] =
                               [pc |-> "put", tracking_id |-> tracking_id,
                                priority |-> req.priority]]
    /\ seq_counter' = seq_counter + 1
    /\ UNCHANGED <<env, schedules, scheduler, harness, now, delivery_attempts, templates, ready_queue, workers,
                   circuit_breakers, rate_limiter, timers>>

ClientPut(c) ==
    /\ clients[c].pc = "put"
    /\ ready_queue' = ready_queue \cup
           {Entry(clients[c].priority, seq_counter, clients[c].tracking_id)}
    /\ clients' = [clients EXCEPT ![c] = IdleClient]
    /\ UNCHANGED <<env, schedules, scheduler, harness, now, notifs, delivery_attempts, templates, seq_counter, workers,
                   circuit_breakers, rate_limiter, timers>>

\* A queue that looks at seq alone, for comparison with Heads.
HeadsBySeq(q) == {e \in q : \A f \in q : e.seq <= f.seq}

(***************************************************************************)
(* asyncio.PriorityQueue.get: the least entry of the heap, by              *)
(* (priority_value, seq, tracking_id).  Tracking ids are random uuid4      *)
(* strings, so between two entries equal in priority_value and seq either  *)
(* may be the lesser.                                                      *)
(***************************************************************************)
Heads(q) ==
    {e \in q : \A f \in q :
        \/ e.priority_value < f.priority_value
        \/ (e.priority_value = f.priority_value /\ e.seq <= f.seq)}

\* queue_service._get_or_create_cb
GetOrCreateCb(recipient) ==
    IF recipient \in DOMAIN circuit_breakers THEN circuit_breakers[recipient]
    ELSE NewCircuitBreaker(env.cb_cooldown)

SetCb(recipient, b) ==
    [r \in DOMAIN circuit_breakers \cup {recipient} |->
        IF r = recipient THEN b ELSE circuit_breakers[r]]

(***************************************************************************)
(* queue_service._process_tracking_id from the outcome of the attempt on:  *)
(* the breaker is told, the attempt is recorded, and after a transient or  *)
(* unexpected failure with attempts left the delayed re-enqueue is         *)
(* created.  nt is the notifications table and b the recipient's breaker   *)
(* when the outcome arrives.                                               *)
(***************************************************************************)
\* Retry policies other than the program's, for comparison with RetryAllowed:
\* one that retries a TransientChannelError alone, one that retries whatever
\* the outcome, one that retries every failure.
RetryTransientOnly(outcome, attempt_number, plan) ==
    outcome = "transient" /\ attempt_number < plan.max_attempts

RetryWhateverOutcome(outcome, attempt_number, plan) ==
    attempt_number < plan.max_attempts

RetryEveryFailure(outcome, attempt_number, plan) ==
    outcome # "ok" /\ attempt_number < plan.max_attempts

\* A policy that also re-enqueues after a delivery, for comparison with
\* RetryAllowed.
RetryAfterDelivery(outcome, attempt_number, plan) ==
    outcome \in {"ok", "transient", "unexpected"} /\ attempt_number < plan.max_attempts

\* A policy that allows one attempt more than the plan, for comparison with
\* RetryAllowed.
RetryOnceMore(outcome, attempt_number, plan) ==
    outcome \in {"transient", "unexpected"} /\ attempt_number <= plan.max_attempts

RetryAllowed(outcome, attempt_number, plan) ==
    outcome \in {"transient", "unexpected"} /\ attempt_number < plan.max_attempts

FinishAttempt(w, nt, b, tracking_id, attempt_number, start, outcome, message) ==
    LET notif == nt[tracking_id]
        plan == GetRetryPlan(notif.priority)
        rec == IF outcome = "ok"
               THEN RecordDeliveryAttempt(nt, delivery_attempts, tracking_id, attempt_number,
                                          "delivered", now - start, None, now)
               ELSE RecordDeliveryAttempt(nt, delivery_attempts, tracking_id, attempt_number,
                                          "failed", now - start, Some(message), now)
    IN  /\ circuit_breakers' =
              SetCb(notif.recipient, IF outcome = "ok" THEN OnSuccess(b) ELSE OnFailure(b, now))
        /\ notifs' = rec.notifs
        /\ delivery_attempts' = rec.delivery_attempts
        /\ IF RetryAllowed(outcome, attempt_number, plan)
           THEN \E delay \in NextDelay(plan, attempt_number + 1) :
                    timers' = timers \cup {[tracking_id |-> tracking_id,
                                            priority |-> notif.priority,
                                            fire_at |-> now + delay]}
           ELSE timers' = timers
        /\ workers' = [workers EXCEPT ![w] = IdleWorker]

\* A refusal that schedules a retry, for comparison with FastFail.
FastFailWithRetry(tracking_id, attempt_number) ==
    LET rec == RecordDeliveryAttempt(notifs, delivery_attempts, tracking_id,
                                     attempt_number, "failed", 0,
                                     Some("circuit_open"), now)
    IN  /\ notifs' = rec.notifs
        /\ delivery_attempts' = rec.delivery_attempts
        /\ timers' = timers \cup {[tracking_id |-> tracking_id,
                                   priority |-> notifs[tracking_id].priority,
                                   fire_at |-> now + Ms(1)]}
        /\ UNCHANGED <<workers, rate_limiter>>

(***************************************************************************)
(* _process_tracking_id when allow_request refuses: the attempt is         *)
(* recorded as failed with "circuit_open" and the processing returns.      *)
(***************************************************************************)
FastFail(tracking_id, attempt_number) ==
    LET rec == RecordDeliveryAttempt(notifs, delivery_attempts, tracking_id,
                                     attempt_number, "failed", 0,
                                     Some("circuit_open"), now)
    IN  /\ notifs' = rec.notifs
        /\ delivery_attempts' = rec.delivery_attempts
        /\ UNCHANGED <<workers, rate_limiter, timers>>

(***************************************************************************)
(* _worker_loop and _process_tracking_id from the return of                *)
(* _ready_queue.get() to the first suspension: the breaker check, the rate *)
(* limiter, status "sending", the rendering, and the call of the adapter.  *)
(***************************************************************************)
Process(w) ==
    /\ workers[w].pc = "idle"
    /\ \E e \in Heads(ready_queue) :
        LET tracking_id == e.tracking_id
        IN
        /\ ready_queue' = ready_queue \ {e}
        /\ seq_counter' = seq_counter
        /\ IF tracking_id \notin DOMAIN notifs
           THEN UNCHANGED <<notifs, delivery_attempts, workers, circuit_breakers,
                            rate_limiter, timers>>
           ELSE
           LET notif == notifs[tracking_id]
               allow == AllowRequest(GetOrCreateCb(notif.recipient), now)
               attempt_number == notif.attempts + 1
               limit == IF rate_limiter # None
                        THEN RateLimiterAllow(Val(rate_limiter), notif.recipient, now, 1)
                        ELSE [ok |-> TRUE, rl |-> 0]
               sending == [notifs EXCEPT ![tracking_id].status = "sending"]
               rendered == RenderContent(templates, notif)
           IN
           IF ~allow.ok
           THEN /\ circuit_breakers' = SetCb(notif.recipient, allow.cb)
                /\ FastFail(tracking_id, attempt_number)
           ELSE IF ~limit.ok
           THEN /\ circuit_breakers' = SetCb(notif.recipient, allow.cb)
                /\ rate_limiter' = Some(limit.rl)
                /\ workers' = [workers EXCEPT ![w] =
                                  [IdleWorker EXCEPT !.pc = "rate_limited",
                                                     !.priority = e.priority_value,
                                                     !.seq = e.seq,
                                                     !.tracking_id = tracking_id,
                                                     !.probe = (allow.cb.state = "half_open"),
                                                     !.wake_at = now + RATE_LIMIT_SLEEP_MS]]
                /\ UNCHANGED <<notifs, delivery_attempts, timers>>
           ELSE /\ rate_limiter' = IF rate_limiter # None THEN Some(limit.rl) ELSE None
                /\ IF rendered = "ok"
                   THEN /\ circuit_breakers' = SetCb(notif.recipient, allow.cb)
                        /\ notifs' = sending
                        /\ workers' = [workers EXCEPT ![w] =
                                          [IdleWorker EXCEPT !.pc = "sending",
                                                             !.priority = e.priority_value,
                                                             !.seq = e.seq,
                                                             !.tracking_id = tracking_id,
                                                             !.attempt_number = attempt_number,
                                                             !.probe = (allow.cb.state = "half_open"),
                                                             !.start = now]]
                        /\ UNCHANGED <<delivery_attempts, timers>>
                   ELSE IF rendered = "not_found"
                   THEN FinishAttempt(w, sending, allow.cb, tracking_id, attempt_number, now,
                                      "permanent", "Template not found")
                   ELSE FinishAttempt(w, sending, allow.cb, tracking_id, attempt_number, now,
                                      "unexpected", UnexpectedMessage)
    /\ UNCHANGED <<env, schedules, scheduler, harness, now, templates, clients>>

(***************************************************************************)
(* _process_tracking_id from the end of channel.send on: the adapter       *)
(* returned, or raised PermanentChannelError, TransientChannelError or     *)
(* another exception.                                                      *)
(***************************************************************************)
SendComplete(w) ==
    /\ workers[w].pc = "sending"
    /\ LET tracking_id == workers[w].tracking_id
           notif == notifs[tracking_id]
       IN  \E outcome \in AdapterOutcomes(notif.channel) \cap env.outcomes :
              FinishAttempt(w, notifs, GetOrCreateCb(notif.recipient), tracking_id,
                            workers[w].attempt_number, workers[w].start, outcome,
                            CASE outcome = "permanent" -> PermanentMessage(notif.channel)
                              [] outcome = "transient" -> TransientMessage(notif.channel)
                              [] OTHER -> UnexpectedMessage)
    /\ UNCHANGED <<env, schedules, scheduler, harness, now, templates, ready_queue, seq_counter, clients, rate_limiter>>

(***************************************************************************)
(* _process_tracking_id after the rate limiter's refusal: asyncio.sleep    *)
(* (0.5) is over and the notification is re-enqueued.                      *)
(***************************************************************************)
\* A wake that puts back the entry the worker took, for comparison with
\* RateLimitedWake.
RateLimitedWakeSameEntry(w) ==
    /\ workers[w].pc = "rate_limited"
    /\ workers[w].wake_at <= now
    /\ ready_queue' = ready_queue \cup
           {Entry(notifs[workers[w].tracking_id].priority, workers[w].seq,
                  workers[w].tracking_id)}
    /\ workers' = [workers EXCEPT ![w] = IdleWorker]
    /\ UNCHANGED <<env, schedules, scheduler, harness, now, notifs, delivery_attempts,
                   templates, seq_counter, clients, circuit_breakers, rate_limiter, timers>>

RateLimitedWake(w) ==
    /\ workers[w].pc = "rate_limited"
    /\ workers[w].wake_at <= now
    /\ EnqueueReady(workers[w].tracking_id, notifs[workers[w].tracking_id].priority)
    /\ workers' = [workers EXCEPT ![w] = IdleWorker]
    /\ UNCHANGED <<env, schedules, scheduler, harness, now, notifs, delivery_attempts, templates, clients,
                   circuit_breakers, rate_limiter, timers>>

(***************************************************************************)
(* queue_service._delayed_requeue: the sleep is over.                      *)
(***************************************************************************)
\* A timer that re-enqueues and stays pending, for comparison with
\* DelayedRequeue.
DelayedRequeueKeepingTimer(t) ==
    /\ t \in timers
    /\ t.fire_at <= now
    /\ \A e \in ready_queue : e.tracking_id # t.tracking_id
    /\ EnqueueReady(t.tracking_id, t.priority)
    /\ UNCHANGED <<env, schedules, scheduler, harness, now, notifs, delivery_attempts,
                   templates, clients, workers, circuit_breakers, rate_limiter, timers>>

DelayedRequeue(t) ==
    /\ t \in timers
    /\ t.fire_at <= now
    /\ timers' = timers \ {t}
    /\ EnqueueReady(t.tracking_id, t.priority)
    /\ UNCHANGED <<env, schedules, scheduler, harness, now, notifs, delivery_attempts, templates, clients, workers,
                   circuit_breakers, rate_limiter>>

(***************************************************************************)
(* The clock.  The event loop sleeps only when nothing is ready to run, so *)
(* time passes only when no thread is inside an admission, no timer is     *)
(* due and no waiting worker has an entry to take; it then passes up to    *)
(* the next instant at which something can change: a timer's end or the    *)
(* end of an open breaker's cooldown.  A send in flight may end at any of  *)
(* these instants.                                                         *)
(***************************************************************************)
Runnable ==
    \/ \E c \in Clients : clients[c].pc # "idle"
    \/ \E t \in timers : t.fire_at <= now
    \/ \E w \in WorkerIds : workers[w].pc = "rate_limited" /\ workers[w].wake_at <= now
    \/ \E w \in WorkerIds : workers[w].pc = "idle" /\ ready_queue # {}

Instants ==
    {t.fire_at : t \in timers}
    \cup {workers[w].wake_at : w \in {v \in WorkerIds : workers[v].pc = "rate_limited"}}
    \cup {Val(circuit_breakers[r].opened_at) + Ms(circuit_breakers[r].cooldown_seconds) :
            r \in {x \in DOMAIN circuit_breakers :
                      circuit_breakers[x].state = "open" /\ circuit_breakers[x].opened_at # None}}

Tick ==
    /\ ~Runnable
    /\ \E t \in Instants : t > now
    /\ now' = SetMin({t \in Instants : t > now})
    /\ UNCHANGED <<env, schedules, scheduler, harness, notifs, delivery_attempts, templates, ready_queue, seq_counter,
                   clients, workers, circuit_breakers, rate_limiter, timers>>

Next ==
    \/ \E c \in Clients : ClientPersist(c)
    \/ \E c \in Clients : ClientPut(c)
    \/ \E w \in WorkerIds : Process(w)
    \/ \E w \in WorkerIds : SendComplete(w)
    \/ \E t \in timers : DelayedRequeue(t)
    \/ Tick

Spec == Init /\ [][Next]_vars

(***************************************************************************)
(* Every channel: the first request is any request, the following ones are *)
(* of priority normal.                                                     *)
(***************************************************************************)
ChannelsEnv ==
    [DefaultEnv EXCEPT
        !.http_threads = 1,
        !.requests = [i \in 1..MaxNotifs |->
                        IF i = 1 THEN InlineRequests
                        ELSE {r \in InlineRequests : r.priority = "normal"}]]

SpecChannels == InitState(ChannelsEnv) /\ [][Next]_vars

(***************************************************************************)
(* One recipient behind a slow and failing webhook: a request of priority  *)
(* low, one of priority critical, then MaxLowNotifs of priority low; the   *)
(* endpoint answers 200 or 500.                                            *)
(***************************************************************************)
MaxLowNotifs == 2

WebhookRequest(priority) ==
    [channel |-> "webhook", recipient |-> Address["webhook"], priority |-> priority,
     template_id |-> None, variables |-> {}]

SlowWebhookEnv ==
    [DefaultEnv EXCEPT
        !.http_threads = 1,
        !.outcomes = {"ok", "transient"},
        !.requests = <<{WebhookRequest("low")}, {WebhookRequest("critical")}>>
                     \o [i \in 1..MaxLowNotifs |-> {WebhookRequest("low")}]]

SpecSlowWebhook == InitState(SlowWebhookEnv) /\ [][Next]_vars

(***************************************************************************)
(* The pipeline with RATE_LIMIT_ENABLED: a limiter of RateLimitedCapacity  *)
(* tokens refilled at RATE_LIMIT_REFILL a second, and MaxNotifs requests   *)
(* by SMS, all to one recipient.  A worker the limiter refuses sleeps      *)
(* RATE_LIMIT_SLEEP_MS and re-enqueues the notification (RateLimitedWake). *)
(***************************************************************************)
RateLimitedCapacity == 1

RateLimitedEnv ==
    [DefaultEnv EXCEPT
        !.http_threads = 1,
        !.outcomes = {"ok", "transient"},
        !.requests = [i \in 1..MaxNotifs |-> {r \in InlineRequests : r.channel = "sms"}],
        !.rate_limit_enabled = TRUE,
        !.rate_limit_capacity = RateLimitedCapacity]

NextRateLimited ==
    \/ Next
    \/ \E w \in WorkerIds : RateLimitedWake(w)

SpecRateLimited == InitState(RateLimitedEnv) /\ [][NextRateLimited]_vars

(***************************************************************************)
(* The same pipeline with CB_COOLDOWN=0: an open breaker admits a probe at *)
(* once, before the limiter's bucket has a token again.  (With a cooldown  *)
(* of c seconds and a refill of r tokens a second the bucket holds at      *)
(* least min(capacity, c * r) tokens when the probe is admitted, so the    *)
(* limiter can refuse a probe only if c * r < 1.)                          *)
(***************************************************************************)
ProbeDeniedEnv == [RateLimitedEnv EXCEPT !.cb_cooldown = 0]

SpecProbeDenied == InitState(ProbeDeniedEnv) /\ [][NextRateLimited]_vars

(***************************************************************************)
(* queue_service.stop_queue_workers: every worker task is cancelled and    *)
(* awaited.  A worker waiting on the queue, inside channel.send or inside  *)
(* the rate limiter's sleep receives CancelledError, which no except       *)
(* clause of _process_tracking_id catches, and leaves its loop; the row it *)
(* was processing keeps its status.  The _delayed_requeue tasks are not in *)
(* _workers.                                                               *)
(***************************************************************************)
StoppedWorker == [IdleWorker EXCEPT !.pc = "stopped"]

WorkersStarted == \E w \in WorkerIds : workers[w].pc # "stopped"

StopQueueWorkers ==
    /\ WorkersStarted
    /\ workers' = [w \in WorkerIds |-> StoppedWorker]
    /\ UNCHANGED <<env, schedules, scheduler, harness, now, notifs, delivery_attempts, templates, ready_queue,
                   seq_counter, clients, circuit_breakers, rate_limiter, timers>>

\* Requests by SMS to one number, of any priority; the carrier delivers or
\* fails temporarily; the service may be shut down at any moment.
ShutdownEnv ==
    [DefaultEnv EXCEPT
        !.http_threads = 1,
        !.outcomes = {"ok", "transient"},
        !.requests = [i \in 1..MaxNotifs |->
                        {r \in InlineRequests : r.channel = "sms"}]]

NextShutdown ==
    \/ Next
    \/ StopQueueWorkers

SpecShutdown == InitState(ShutdownEnv) /\ [][NextShutdown]_vars

(***************************************************************************)
(* A store that fails: a statement of _process_tracking_id outside its     *)
(* inner try raises (the session's query at its start, or the commit of    *)
(* status sending; SQLite raises OperationalError when the database is     *)
(* locked by another session).  The exception leaves _process_tracking_id  *)
(* through finally: db.close(), which drops what was not committed, and    *)
(* _worker_loop catches it, prints it and waits for the next entry.  The   *)
(* entry taken is gone; before the commit the breaker has been asked       *)
(* (allow_request) and the limiter consulted.                              *)
(***************************************************************************)
\* A worker loop that does not catch the exception: the task ends.  For
\* comparison with ProcessRaises.
ProcessRaisesUncaught(w) ==
    /\ workers[w].pc = "idle"
    /\ \E e \in Heads(ready_queue) :
          /\ e.tracking_id \in DOMAIN notifs
          /\ ready_queue' = ready_queue \ {e}
    /\ workers' = [workers EXCEPT ![w] = StoppedWorker]
    /\ UNCHANGED <<env, schedules, scheduler, harness, now, notifs, delivery_attempts,
                   templates, seq_counter, clients, circuit_breakers, rate_limiter, timers>>

ProcessRaises(w) ==
    /\ workers[w].pc = "idle"
    /\ \E e \in Heads(ready_queue), statement \in {"query", "commit"} :
          /\ e.tracking_id \in DOMAIN notifs
          /\ ready_queue' = ready_queue \ {e}
          /\ LET notif == notifs[e.tracking_id]
                 allow == AllowRequest(GetOrCreateCb(notif.recipient), now)
                 limit == IF rate_limiter # None
                          THEN RateLimiterAllow(Val(rate_limiter), notif.recipient, now, 1)
                          ELSE [ok |-> TRUE, rl |-> 0]
             IN  IF statement = "query"
                 THEN UNCHANGED <<circuit_breakers, rate_limiter>>
                 ELSE /\ allow.ok
                      /\ limit.ok
                      /\ circuit_breakers' = SetCb(notif.recipient, allow.cb)
                      /\ rate_limiter' = IF rate_limiter # None THEN Some(limit.rl) ELSE None
    /\ UNCHANGED <<env, schedules, scheduler, harness, now, notifs, delivery_attempts,
                   templates, seq_counter, clients, workers, timers>>

NextFaultyStore ==
    \/ Next
    \/ \E w \in WorkerIds : ProcessRaises(w)
    \/ StopQueueWorkers

SpecFaultyStore == InitState(ShutdownEnv) /\ [][NextFaultyStore]_vars

(***************************************************************************)
(* Stored templates and requests that refer to them by name, by push to    *)
(* one device.  "welcome-push" requires the variable name and its body     *)
(* refers to it; the body of "promo" refers to code, which the template    *)
(* does not declare.  A request refers to "welcome-push" with or without   *)
(* the variable, to "promo" without code, or to a template that does not   *)
(* exist.  The workers run for ever, a thread inside an admission ends it, *)
(* a send ends (every adapter bounds its waits) and a timer fires.         *)
(***************************************************************************)
Templates ==
    {[template_id |-> "tpl-1", name |-> "welcome-push", active |-> TRUE,
      variables |-> {"name"}, referenced |-> {"name"}],
     [template_id |-> "tpl-2", name |-> "promo", active |-> TRUE,
      variables |-> {}, referenced |-> {"code"}]}

TemplateRequest(priority, name, variables) ==
    [channel |-> "push", recipient |-> Address["push"], priority |-> priority,
     template_id |-> Some(name), variables |-> variables]

TemplateRequests ==
    {TemplateRequest(p, "welcome-push", {"name"}) : p \in Priorities}
    \cup {TemplateRequest(p, "welcome-push", {}) : p \in Priorities}
    \cup {TemplateRequest(p, "promo", {}) : p \in Priorities}
    \cup {TemplateRequest(p, "no-such-template", {}) : p \in Priorities}

TemplateEnv ==
    [DefaultEnv EXCEPT
        !.http_threads = 1,
        !.outcomes = {"ok", "transient"},
        !.templates = Templates,
        !.requests = [i \in 1..MaxNotifs |->
                        TemplateRequests
                        \cup {r \in InlineRequests :
                                r.channel = "sms" /\ r.priority = "normal"}]]

WorkersRunning ==
    /\ WF_vars(\E c \in Clients : ClientPut(c))
    /\ WF_vars(\E w \in WorkerIds : Process(w))
    /\ WF_vars(\E w \in WorkerIds : SendComplete(w))
    /\ WF_vars(\E t \in timers : DelayedRequeue(t))
    /\ WF_vars(Tick)

SpecTemplates == InitState(TemplateEnv) /\ [][Next]_vars /\ WorkersRunning

(***************************************************************************)
(* retry_handler.CircuitBreaker driven alone: one breaker, constructed as  *)
(* _get_or_create_cb constructs it, and any sequence of at most MaxCalls   *)
(* calls of allow_request, on_success and on_failure, at any times (the    *)
(* clock moves by a third of the cooldown, at most MaxCbTicks times).      *)
(***************************************************************************)
MaxCalls == 7
MaxCbTicks == 7

CbKey == Address["sms"]
CbStep == Ms(DefaultEnv.cb_cooldown) \div 3

CbInit ==
    /\ env = DefaultEnv
    /\ now = 0
    /\ notifs = << >>
    /\ delivery_attempts = << >>
    /\ templates = {}
    /\ ready_queue = {}
    /\ seq_counter = 0
    /\ clients = [c \in 1..DefaultEnv.http_threads |-> IdleClient]
    /\ workers = [w \in 1..DefaultEnv.queue_workers |-> IdleWorker]
    /\ circuit_breakers = [r \in {CbKey} |-> NewCircuitBreaker(DefaultEnv.cb_cooldown)]
    /\ rate_limiter = None
    /\ timers = {}
    /\ harness = NoCalls
    /\ schedules = << >>
    /\ scheduler = NewScheduler

CbAllowRequest ==
    /\ harness.calls < MaxCalls
    /\ LET b == circuit_breakers[CbKey]
           r == AllowRequest(b, now)
       IN  /\ circuit_breakers' = [circuit_breakers EXCEPT ![CbKey] = r.cb]
           /\ harness' = [harness EXCEPT
                             !.calls = @ + 1,
                             !.op = "allow_request",
                             !.result = r.ok,
                             !.claimed = @ \/ (r.ok /\ b.state # "closed")]
    /\ UNCHANGED <<env, schedules, scheduler, now, notifs, delivery_attempts, templates, ready_queue,
                   seq_counter, clients, workers, rate_limiter, timers>>

CbOnSuccess ==
    /\ harness.calls < MaxCalls
    /\ circuit_breakers' = [circuit_breakers EXCEPT ![CbKey] = OnSuccess(@)]
    /\ harness' = [calls |-> harness.calls + 1, op |-> "on_success", result |-> TRUE,
                   failures |-> 0, claimed |-> FALSE]
    /\ UNCHANGED <<env, schedules, scheduler, now, notifs, delivery_attempts, templates, ready_queue,
                   seq_counter, clients, workers, rate_limiter, timers>>

CbOnFailure ==
    /\ harness.calls < MaxCalls
    /\ circuit_breakers' = [circuit_breakers EXCEPT ![CbKey] = OnFailure(@, now)]
    /\ harness' = [calls |-> harness.calls + 1, op |-> "on_failure", result |-> TRUE,
                   failures |-> harness.failures + 1, claimed |-> FALSE]
    /\ UNCHANGED <<env, schedules, scheduler, now, notifs, delivery_attempts, templates, ready_queue,
                   seq_counter, clients, workers, rate_limiter, timers>>

CbTick ==
    /\ now < MaxCbTicks * CbStep
    /\ now' = now + CbStep
    /\ UNCHANGED <<env, schedules, scheduler, notifs, delivery_attempts, templates, ready_queue, seq_counter,
                   clients, workers, circuit_breakers, rate_limiter, timers, harness>>

NextCB ==
    \/ CbAllowRequest
    \/ CbOnSuccess
    \/ CbOnFailure
    \/ CbTick

SpecCB == CbInit /\ [][NextCB]_vars

(***************************************************************************)
(* retry_handler.get_retry_plan and RetryPlan.next_delay driven alone: one *)
(* call, for any priority and any attempt number of 0..MaxAttemptNumber.   *)
(* harness holds the call and its result (a delay in milliseconds).        *)
(***************************************************************************)
MaxAttemptNumber == 6

GetRetryPlanCall ==
    /\ harness.op = "new"
    /\ \E priority \in Priorities :
          harness' = [op |-> "get_retry_plan", priority |-> priority,
                      attempt_number |-> 0, result |-> GetRetryPlan(priority)]
    /\ UNCHANGED <<env, now, notifs, delivery_attempts, templates, ready_queue, seq_counter,
                   clients, workers, circuit_breakers, rate_limiter, timers, schedules,
                   scheduler>>

NextDelayCall ==
    /\ harness.op = "new"
    /\ \E priority \in Priorities, attempt_number \in 0..MaxAttemptNumber :
          \E delay \in NextDelay(GetRetryPlan(priority), attempt_number) :
              harness' = [op |-> "next_delay", priority |-> priority,
                          attempt_number |-> attempt_number, result |-> delay]
    /\ UNCHANGED <<env, now, notifs, delivery_attempts, templates, ready_queue, seq_counter,
                   clients, workers, circuit_breakers, rate_limiter, timers, schedules,
                   scheduler>>

NextRetryPlan ==
    \/ GetRetryPlanCall
    \/ NextDelayCall

SpecRetryPlan == InitState(DefaultEnv) /\ [][NextRetryPlan]_vars

(***************************************************************************)
(* rate_limiter.RateLimiter driven alone: a limiter of a capacity of       *)
(* 1..RlCapacity refilled at 1..MaxRlRefill tokens a second, and at most   *)
(* MaxRlCalls calls of allow(key, amount), amount in 1..MaxRlAmount, for   *)
(* the keys of two recipients, at                                          *)
(* any times (the clock moves by half a second or by a second, at most     *)
(* MaxRlTicks times).  harness holds the last call and, for each key: the  *)
(* number of calls that returned true since the clock last moved           *)
(* (granted), the number of calls (count), the time of the last call       *)
(* (last_call), whether every call was allow(key, 1) and came at least     *)
(* 1/refill_rate after the one before (spaced) and whether a call returned false (refused).        *)
(***************************************************************************)
RlCapacity == 2
MaxRlRefill == 2
MaxRlAmount == 2
MaxRlCalls == 6
MaxRlTicks == 3

RlKeys == {Address["sms"], Address["push"]}

RlInit ==
    /\ \E capacity \in 1..RlCapacity, refill_rate \in 1..MaxRlRefill :
          /\ env = [DefaultEnv EXCEPT !.rate_limit_enabled = TRUE,
                                      !.rate_limit_capacity = capacity,
                                      !.rate_limit_refill = refill_rate]
          /\ rate_limiter = Some([capacity |-> capacity, refill_rate |-> refill_rate,
                                  buckets |-> << >>])
    /\ now = 0
    /\ notifs = << >>
    /\ delivery_attempts = << >>
    /\ templates = {}
    /\ ready_queue = {}
    /\ seq_counter = 0
    /\ clients = [c \in 1..DefaultEnv.http_threads |-> IdleClient]
    /\ workers = [w \in 1..DefaultEnv.queue_workers |-> IdleWorker]
    /\ circuit_breakers = << >>
    /\ timers = {}
    /\ schedules = << >>
    /\ scheduler = NewScheduler
    /\ harness = [calls |-> 0, ticks |-> 0, op |-> "new", key |-> "", amount |-> 0,
                  result |-> TRUE,
                  granted |-> [k \in RlKeys |-> 0],
                  count |-> [k \in RlKeys |-> 0],
                  last_call |-> [k \in RlKeys |-> None],
                  spaced |-> [k \in RlKeys |-> TRUE],
                  refused |-> [k \in RlKeys |-> FALSE]]

RlAllow ==
    /\ harness.calls < MaxRlCalls
    /\ \E key \in RlKeys, amount \in 1..MaxRlAmount :
          LET r == RateLimiterAllow(Val(rate_limiter), key, now, amount)
          IN  /\ rate_limiter' = Some(r.rl)
              /\ harness' = [harness EXCEPT
                                !.calls = @ + 1,
                                !.op = "allow",
                                !.key = key,
                                !.amount = amount,
                                !.result = r.ok,
                                !.granted[key] = IF r.ok THEN @ + 1 ELSE @,
                                !.count[key] = @ + 1,
                                !.last_call[key] = Some(now),
                                !.spaced[key] =
                                    /\ @
                                    /\ amount = 1
                                    /\ \/ harness.last_call[key] = None
                                       \/ (now - Val(harness.last_call[key]))
                                             * Val(rate_limiter).refill_rate >= Ms(1),
                                !.refused[key] = @ \/ ~r.ok]
    /\ UNCHANGED <<env, now, notifs, delivery_attempts, templates, ready_queue, seq_counter,
                   clients, workers, circuit_breakers, timers, schedules, scheduler>>

RlTick ==
    /\ harness.ticks < MaxRlTicks
    /\ \E elapsed \in {RATE_LIMIT_SLEEP_MS, Ms(1)} : now' = now + elapsed
    /\ harness' = [harness EXCEPT !.ticks = @ + 1, !.op = "tick",
                                  !.granted = [k \in RlKeys |-> 0]]
    /\ UNCHANGED <<env, notifs, delivery_attempts, templates, ready_queue, seq_counter,
                   clients, workers, circuit_breakers, rate_limiter, timers, schedules,
                   scheduler>>

NextRateLimiter ==
    \/ RlAllow
    \/ RlTick

SpecRateLimiter == RlInit /\ [][NextRateLimiter]_vars

(***************************************************************************)
(* Datetimes.  A datetime is its wall-clock reading t, in milliseconds,    *)
(* and whether it carries a UTC offset (aware) or not (naive); an aware    *)
(* datetime of the model is in UTC.  Comparing a naive with an aware       *)
(* datetime raises TypeError.  A DateTime column keeps the reading and     *)
(* drops the offset.                                                       *)
(***************************************************************************)
Hour == Ms(3600)

Naive(t) == [t |-> t, aware |-> FALSE]
Aware(t) == [t |-> t, aware |-> TRUE]

DatetimeLess(a, b) ==
    IF a.aware # b.aware THEN "TypeError"
    ELSE IF a.t < b.t THEN "true" ELSE "false"

\* The zones of the model and their offsets from UTC (neither has daylight
\* saving time).
Timezones == {"UTC", "Africa/Lagos"}

UtcOffset(tz_name) == IF tz_name = "Africa/Lagos" THEN Hour ELSE 0

\* scheduler_service._to_utc
ToUtc(dt, tz_name) ==
    IF ~dt.aware THEN Aware(dt.t - UtcOffset(tz_name)) ELSE dt

(***************************************************************************)
(* croniter: "0 * * * *" is every hour, "0 */2 * * *" every even hour;     *)
(* any other text of the model is not a cron expression and croniter       *)
(* raises.  CronNext is the first occurrence strictly after a wall-clock   *)
(* reading.                                                                *)
(***************************************************************************)
CronExpressions == {"0 * * * *", "0 */2 * * *"}

CronPeriod(cron_expr) == IF cron_expr = "0 * * * *" THEN Hour ELSE 2 * Hour

CronNext(wall, cron_expr) == ((wall \div CronPeriod(cron_expr)) + 1) * CronPeriod(cron_expr)

\* scheduler_service._next_cron_time, for a valid expression and an aware
\* current_local: the next occurrence in the zone, as an aware UTC datetime.
NextCronTime(current_local, cron_expr, tz_name) ==
    Aware(CronNext(current_local.t + UtcOffset(tz_name), cron_expr) - UtcOffset(tz_name))

(***************************************************************************)
(* api/notifications.schedule_notification: the row is inserted as given,  *)
(* last_run NULL.  Nothing validates recurrence.                           *)
(***************************************************************************)
NewSchedule(payload) ==
    [notification_data |-> payload.notification,
     send_at |-> Naive(payload.send_at.t),
     timezone |-> payload.timezone,
     recurrence |-> payload.recurrence,
     last_run |-> None,
     active |-> payload.active]

ScheduleNotification ==
    /\ Len(schedules) < Len(env.schedule_requests)
    /\ \E payload \in env.schedule_requests[Len(schedules) + 1] :
          schedules' = Append(schedules, NewSchedule(payload))
    /\ UNCHANGED <<env, now, notifs, delivery_attempts, templates, ready_queue, seq_counter,
                   clients, workers, circuit_breakers, rate_limiter, timers, harness,
                   scheduler>>

(***************************************************************************)
(* scheduler_service._process_due_schedules.  One session serves the whole *)
(* scan: st.schedules is the table as committed, st.dirty the rows the     *)
(* session has changed and not committed.  A commit, that of               *)
(* enqueue_notification included, writes every changed row; what is not    *)
(* committed when the scan ends is dropped by db.close().                  *)
(***************************************************************************)
StoredRow(row) ==
    [row EXCEPT !.send_at = Naive(@.t),
                !.last_run = IF @ = None THEN None ELSE Some(Naive(Val(@).t))]

SessionChange(st, schedule_id, row) ==
    [st EXCEPT !.dirty = [k \in DOMAIN st.dirty \cup {schedule_id} |->
                             IF k = schedule_id THEN row ELSE st.dirty[k]]]

\* A commit that writes nothing, for comparison with SessionCommit.
SessionRollback(st) == [st EXCEPT !.dirty = << >>]

SessionCommit(st) ==
    [st EXCEPT !.schedules = [k \in DOMAIN st.schedules |->
                                 IF k \in DOMAIN st.dirty THEN StoredRow(st.dirty[k])
                                 ELSE st.schedules[k]],
               !.dirty = << >>]

\* enqueue_notification called by the scan, on the event loop.
SessionEnqueue(st, schedule_id, req, scan) ==
    LET tracking_id == Len(st.notifs) + 1
        committed == SessionCommit(st)
    IN  [committed EXCEPT
            !.notifs = Append(@, NewRow(req)),
            !.seq_counter = @ + 1,
            !.ready_queue = @ \cup
                {[priority_value |-> PriorityValue(req.priority),
                  seq |-> st.seq_counter + 1,
                  tracking_id |-> tracking_id,
                  ord |-> 1 + SetMax({0} \cup {e.ord : e \in st.ready_queue})]},
            !.fired = Append(@, [schedule_id |-> schedule_id,
                                 send_at |-> st.schedules[schedule_id].send_at,
                                 tracking_id |-> tracking_id,
                                 scan |-> scan])]

Raised(st, schedule_id) == [st EXCEPT !.failed = @ \cup {schedule_id}]

\* The body of the loop for one schedule; now_utc is aware.
ProcessSchedule(st, schedule_id, now_utc, scan) ==
    LET sched == st.schedules[schedule_id]
        send_at_utc == ToUtc(sched.send_at, sched.timezone)
        reached == DatetimeLess(now_utc, send_at_utc)
        not_run == IF sched.last_run = None THEN "true"
                   ELSE DatetimeLess(Val(sched.last_run), send_at_utc)
    IN  IF reached = "TypeError" THEN Raised(st, schedule_id)
        ELSE IF reached = "true" THEN st
        ELSE IF not_run = "TypeError" THEN Raised(st, schedule_id)
        ELSE IF not_run = "false" THEN st
        ELSE LET enqueued == SessionEnqueue(st, schedule_id, sched.notification_data, scan)
                 ran == [sched EXCEPT !.last_run = Some(now_utc)]
             IN  IF sched.recurrence # None
                 THEN IF Val(sched.recurrence) \in CronExpressions
                      THEN SessionCommit(SessionChange(enqueued, schedule_id,
                              [ran EXCEPT !.send_at =
                                  Naive(NextCronTime(send_at_utc, Val(sched.recurrence),
                                                     sched.timezone).t)]))
                      ELSE Raised(SessionChange(enqueued, schedule_id, ran), schedule_id)
                 ELSE SessionCommit(SessionChange(enqueued, schedule_id,
                                                  [ran EXCEPT !.active = FALSE]))

\* A scan that ends at the first schedule whose processing raises, for
\* comparison with ScanFrom.
RECURSIVE ScanFromUntilRaised(_, _, _, _, _)
ScanFromUntilRaised(order, i, st, now_utc, scan) ==
    IF i > Len(order) \/ st.failed # {} THEN st
    ELSE ScanFromUntilRaised(order, i + 1, ProcessSchedule(st, order[i], now_utc, scan),
                             now_utc, scan)

RECURSIVE ScanFrom(_, _, _, _, _)
ScanFrom(order, i, st, now_utc, scan) ==
    IF i > Len(order) THEN st
    ELSE ScanFrom(order, i + 1, ProcessSchedule(st, order[i], now_utc, scan), now_utc, scan)

\* The orders in which a query without ORDER BY may return the rows.
Orders(S) ==
    {o \in [1..Cardinality(S) -> S] : \A i, j \in DOMAIN o : i # j => o[i] # o[j]}

MaxScans == 5

ProcessDueSchedules ==
    /\ scheduler.pc = "scan"
    /\ scheduler.scans < MaxScans
    /\ \E order \in Orders({k \in DOMAIN schedules : schedules[k].active}) :
          LET st == ScanFrom(order, 1,
                             [schedules |-> schedules, dirty |-> << >>, notifs |-> notifs,
                              ready_queue |-> ready_queue, seq_counter |-> seq_counter,
                              fired |-> scheduler.fired, failed |-> {}],
                             Aware(now), scheduler.scans + 1)
          IN  /\ schedules' = st.schedules
              /\ notifs' = st.notifs
              /\ ready_queue' = st.ready_queue
              /\ seq_counter' = st.seq_counter
              /\ scheduler' = [pc |-> "sleep", scans |-> scheduler.scans + 1,
                               fired |-> st.fired, failed |-> st.failed]
    /\ UNCHANGED <<env, now, delivery_attempts, templates, clients, workers,
                   circuit_breakers, rate_limiter, timers, harness>>

(***************************************************************************)
(* _scheduler_loop: asyncio.sleep(1.0) between two scans.  The clock of    *)
(* this specification shows the hour: after the sleep it shows the same    *)
(* hour or the next one.                                                   *)
(***************************************************************************)
SchedulerSleep ==
    /\ scheduler.pc = "sleep"
    /\ scheduler' = [scheduler EXCEPT !.pc = "scan"]
    /\ \E elapsed \in {0, Hour} : now' = now + elapsed
    /\ UNCHANGED <<env, notifs, delivery_attempts, templates, ready_queue, seq_counter,
                   clients, workers, circuit_breakers, rate_limiter, timers, harness,
                   schedules>>

\* The schedules of the workload: an SMS of priority normal, due at 01:00
\* or 02:00 of its zone, once or by a cron expression (one of them not a
\* cron expression), active or not.
MaxSchedules == 2

ScheduleRequests ==
    {[notification |-> [channel |-> "sms", recipient |-> Address["sms"],
                        priority |-> "normal", template_id |-> None, variables |-> {}],
      send_at |-> Naive(h * Hour), timezone |-> tz, recurrence |-> r, active |-> a] :
        h \in {1, 2}, tz \in Timezones,
        r \in {None, Some("0 * * * *"), Some("0 */2 * * *"), Some("every hour")},
        a \in BOOLEAN}

SchedulerEnv ==
    [DefaultEnv EXCEPT
        !.http_threads = 1,
        !.requests = << >>,
        !.schedule_requests = [i \in 1..MaxSchedules |-> ScheduleRequests]]

NextScheduler ==
    \/ ScheduleNotification
    \/ ProcessDueSchedules
    \/ SchedulerSleep

SpecScheduler == InitState(SchedulerEnv) /\ [][NextScheduler]_vars

(***************************************************************************)
(* POST /notifications/batch on an HTTP thread, seen alone: no worker      *)
(* takes an entry while the request is served.  The body is parsed as a BatchRequest before the endpoint      *)
(* runs: a list that is empty or longer than MAX_BATCH_SIZE, or an item    *)
(* that is not a NotificationRequest, makes the validator raise, and the   *)
(* framework answers a request whose body does not validate with 422       *)
(* without calling the endpoint.  The endpoint then tests the length       *)
(* itself (400) and calls enqueue_notification for each item in turn, in   *)
(* both delivery modes.  harness holds the request (size, delivery_mode,   *)
(* valid: whether every item validates), the thread's position (op), the   *)
(* items of the response so far and the status code of the response (0     *)
(* until it is sent).                                                      *)
(***************************************************************************)
MAX_BATCH_SIZE == 100

BatchSizes == {0, 1, MAX_BATCH_SIZE, MAX_BATCH_SIZE + 1}

DeliveryModes == {"atomic", "best_effort"}

BatchItem == [channel |-> "sms", recipient |-> Address["sms"], priority |-> "normal",
              template_id |-> None, variables |-> {}]

\* models.BatchRequest: the validation of the body.
BatchRequestValidates(size, valid) ==
    /\ valid
    /\ size # 0
    /\ ~(size > MAX_BATCH_SIZE)

BatchEnv ==
    [DefaultEnv EXCEPT !.http_threads = 1, !.queue_workers = 0, !.requests = << >>]

BatchInit ==
    /\ env = BatchEnv
    /\ now = 0
    /\ notifs = << >>
    /\ delivery_attempts = << >>
    /\ templates = {}
    /\ ready_queue = {}
    /\ seq_counter = 0
    /\ clients = [c \in 1..BatchEnv.http_threads |-> IdleClient]
    /\ workers = [w \in 1..BatchEnv.queue_workers |-> IdleWorker]
    /\ circuit_breakers = << >>
    /\ rate_limiter = None
    /\ timers = {}
    /\ schedules = << >>
    /\ scheduler = NewScheduler
    /\ harness = [op |-> "new", size |-> 0, delivery_mode |-> "best_effort", valid |-> TRUE,
                  items |-> << >>, status_code |-> 0]

\* The request arrives: body validation, then the endpoint's own test of
\* the length.
BatchReceive ==
    /\ harness.op = "new"
    /\ \E size \in BatchSizes, delivery_mode \in DeliveryModes, valid \in BOOLEAN :
         harness' = [harness EXCEPT
                        !.size = size, !.delivery_mode = delivery_mode, !.valid = valid,
                        !.op = IF ~BatchRequestValidates(size, valid) THEN "done"
                               ELSE IF size > MAX_BATCH_SIZE THEN "done"
                               ELSE "persist",
                        !.status_code = IF ~BatchRequestValidates(size, valid) THEN 422
                                        ELSE IF size > MAX_BATCH_SIZE THEN 400
                                        ELSE 0]
    /\ UNCHANGED <<env, schedules, scheduler, now, notifs, delivery_attempts, templates,
                   ready_queue, seq_counter, clients, workers, circuit_breakers,
                   rate_limiter, timers>>

\* enqueue_notification for the next item, up to the increment of
\* _seq_counter (as ClientPersist).
BatchPersist ==
    /\ harness.op = "persist"
    /\ Len(harness.items) < harness.size
    /\ notifs' = Append(notifs, NewRow(BatchItem))
    /\ seq_counter' = seq_counter + 1
    /\ harness' = [harness EXCEPT !.op = "put"]
    /\ UNCHANGED <<env, schedules, scheduler, now, delivery_attempts, templates,
                   ready_queue, clients, workers, circuit_breakers, rate_limiter, timers>>

\* The rest of enqueue_notification (as ClientPut) and the item of the
\* response.
BatchPut ==
    /\ harness.op = "put"
    /\ ready_queue' = ready_queue \cup {Entry(BatchItem.priority, seq_counter, Len(notifs))}
    /\ harness' = [harness EXCEPT
                      !.op = "persist",
                      !.items = Append(@, [tracking_id |-> Len(notifs), status |-> "queued"])]
    /\ UNCHANGED <<env, schedules, scheduler, now, notifs, delivery_attempts, templates,
                   seq_counter, clients, workers, circuit_breakers, rate_limiter, timers>>

\* Every item was enqueued: the BatchResponse is returned.
BatchRespond ==
    /\ harness.op = "persist"
    /\ Len(harness.items) = harness.size
    /\ harness' = [harness EXCEPT !.op = "done", !.status_code = 200]
    /\ UNCHANGED <<env, schedules, scheduler, now, notifs, delivery_attempts, templates,
                   ready_queue, seq_counter, clients, workers, circuit_breakers,
                   rate_limiter, timers>>

NextBatch ==
    \/ BatchReceive
    \/ BatchPersist
    \/ BatchPut
    \/ BatchRespond

SpecBatch == BatchInit /\ [][NextBatch]_vars

(***************************************************************************)
(* template_service.TemplateService.render driven alone: one call on a     *)
(* template whose variables list is any list of at most MaxRequired names  *)
(* (repetitions included) and whose texts refer to any set of names, with  *)
(* any set of names supplied.  The result is the exception raised          *)
(* (ValueError with the names of its message, or jinja2's UndefinedError   *)
(* under StrictUndefined) or "ok".                                         *)
(***************************************************************************)
MaxRequired == 3

VariableNames == {"name", "code", "amount"}

RECURSIVE SeqsUpTo(_, _)
SeqsUpTo(S, n) ==
    IF n = 0 THEN {<< >>}
    ELSE LET shorter == SeqsUpTo(S, n - 1)
         IN  shorter \cup {Append(q, x) : q \in {r \in shorter : Len(r) = n - 1}, x \in S}

\* missing = [v for v in required if v not in provided]
RECURSIVE MissingVariables(_, _)
MissingVariables(required, provided) ==
    IF required = << >> THEN << >>
    ELSE IF Head(required) \notin provided
    THEN <<Head(required)>> \o MissingVariables(Tail(required), provided)
    ELSE MissingVariables(Tail(required), provided)

\* A validation whose message lists the missing names from the last to the
\* first, for comparison with ValidateRequiredVariables.
ValidateRequiredVariablesReversed(required, provided) ==
    LET missing == MissingVariables(required, provided)
    IN  IF missing # << >>
        THEN Some([k \in 1..Len(missing) |-> missing[Len(missing) + 1 - k]])
        ELSE None

\* _validate_required_variables: None, or the names joined in the message
\* of the ValueError raised.
ValidateRequiredVariables(required, provided) ==
    LET missing == MissingVariables(required, provided)
    IN  IF missing # << >> THEN Some(missing) ELSE None

\* TemplateService.render(template_obj, variables); variables is the set of
\* the keys of the map.
TemplateServiceRender(template_obj, variables) ==
    LET error == ValidateRequiredVariables(template_obj.variables, variables)
    IN  IF error # None
        THEN [raised |-> "ValueError", missing |-> Val(error)]
        ELSE IF ~(template_obj.referenced \subseteq variables)
        THEN [raised |-> "UndefinedError", missing |-> << >>]
        ELSE [raised |-> "ok", missing |-> << >>]

TemplateRenderCall ==
    /\ harness.op = "new"
    /\ \E required \in SeqsUpTo(VariableNames, MaxRequired),
          referenced \in SUBSET VariableNames, variables \in SUBSET VariableNames :
         harness' = [op |-> "render", required |-> required, referenced |-> referenced,
                     variables |-> variables,
                     result |-> TemplateServiceRender(
                                    [variables |-> required, referenced |-> referenced],
                                    variables)]
    /\ UNCHANGED <<env, schedules, scheduler, now, notifs, delivery_attempts, templates,
                   ready_queue, seq_counter, clients, workers, circuit_breakers,
                   rate_limiter, timers>>

NextTemplateRender == TemplateRenderCall

SpecTemplateRender == InitState(DefaultEnv) /\ [][NextTemplateRender]_vars

(***************************************************************************)
(* Properties.                                                             *)
(***************************************************************************)
Attempts(tracking_id) ==
    IF tracking_id \in DOMAIN delivery_attempts THEN delivery_attempts[tracking_id]
    ELSE << >>

InQueue(tracking_id) == \E e \in ready_queue : e.tracking_id = tracking_id
InTimer(tracking_id) == \E t \in timers : t.tracking_id = tracking_id
Held(tracking_id) ==
    \E w \in WorkerIds : workers[w].pc # "idle" /\ workers[w].tracking_id = tracking_id
Admitting(tracking_id) ==
    \E c \in Clients : clients[c].pc = "put" /\ clients[c].tracking_id = tracking_id

\* The notification is failed and nothing will process it again.
Ended(tracking_id) ==
    /\ notifs[tracking_id].status = "failed"
    /\ ~InQueue(tracking_id) /\ ~InTimer(tracking_id)
    /\ ~Held(tracking_id) /\ ~Admitting(tracking_id)

\* C1: whenever a worker takes an entry from the ready queue, no entry of a
\* lower priority_rank (a higher priority) is in the queue at that moment.
C1_PriorityOrder ==
    [][\A e \in ready_queue \ ready_queue' :
          \A f \in ready_queue : f.priority_value >= e.priority_value]_vars

\* C1 happens: a worker holds the first attempt of a notification of priority
\* high while a notification of priority low that was pushed before it, and
\* never processed, is still in the queue.
C1_Witness ==
    \E w \in WorkerIds : \E f \in ready_queue :
        /\ workers[w].pc = "sending" /\ workers[w].attempt_number = 1
        /\ workers[w].priority = PriorityValue("high")
        /\ f.priority_value = PriorityValue("low")
        /\ f.tracking_id < workers[w].tracking_id
        /\ notifs[f.tracking_id].attempts = 0

\* C2: within one priority_rank the queue is first in, first out: when a
\* worker takes an entry, no entry of the same priority_rank that was pushed
\* before it is in the queue.
C2_FifoWithinPriority ==
    [][\A e \in ready_queue \ ready_queue' :
          \A f \in ready_queue :
              f.priority_value = e.priority_value => f.ord >= e.ord]_vars

\* C3: for every notification the attempts field is the number of its
\* recorded attempts, and their attempt_numbers are exactly 1..attempts, with
\* no gap and no duplicate.
C3_AttemptsCount ==
    \A tracking_id \in DOMAIN notifs :
        LET a == Attempts(tracking_id)
        IN  /\ notifs[tracking_id].attempts = Len(a)
            /\ {a[i].attempt_number : i \in 1..Len(a)} = 1..Len(a)
            /\ \A i, j \in 1..Len(a) : a[i].attempt_number = a[j].attempt_number => i = j

\* C3 happens: a notification with three recorded attempts, the last one a
\* refusal by the breaker.
C3_Witness ==
    \E tracking_id \in DOMAIN notifs :
        /\ Len(Attempts(tracking_id)) = 3
        /\ Attempts(tracking_id)[3].error_message = Some("circuit_open")

\* C4: if the delivered_at of a notification is set then its status is
\* delivered and its highest-numbered attempt is delivered.
C4_DeliveredAt ==
    \A tracking_id \in DOMAIN notifs :
        LET a == Attempts(tracking_id)
        IN  notifs[tracking_id].delivered_at # None =>
              /\ notifs[tracking_id].status = "delivered"
              /\ Len(a) > 0
              /\ \A i \in 1..Len(a) :
                    (\A j \in 1..Len(a) : a[j].attempt_number <= a[i].attempt_number)
                        => a[i].status = "delivered"

\* C4 happens: a notification delivered at its second attempt while the other
\* notification is being sent.
C4_Witness ==
    \E tracking_id \in DOMAIN notifs :
        /\ notifs[tracking_id].delivered_at # None
        /\ Len(Attempts(tracking_id)) = 2
        /\ \E w \in WorkerIds : workers[w].pc = "sending"

\* C5: if the status of a notification is failed or bounced, its
\* failure_reason is the error_message of its highest-numbered failed attempt.
C5_FailureReason ==
    \A tracking_id \in DOMAIN notifs :
        LET a == Attempts(tracking_id)
            failed == {i \in 1..Len(a) : a[i].status \in {"failed", "bounced"}}
        IN  notifs[tracking_id].status \in {"failed", "bounced"} =>
              /\ failed # {}
              /\ \A i \in failed :
                    (\A j \in failed : a[j].attempt_number <= a[i].attempt_number)
                        => notifs[tracking_id].failure_reason = a[i].error_message

\* C5 happens: a failed notification whose last failure has another message
\* than its first.
C5_Witness ==
    \E tracking_id \in DOMAIN notifs :
        LET a == Attempts(tracking_id)
        IN  /\ notifs[tracking_id].status = "failed"
            /\ Len(a) >= 2
            /\ a[Len(a)].error_message # a[1].error_message

\* C6: on every channel and at every priority, when the adapter raises
\* PermanentChannelError on the first attempt, exactly one attempt is
\* recorded (failed, with the message), the notification is failed, and it
\* is neither queued again nor waiting for a delayed re-enqueue.
C6_PermanentNoRetry ==
    \A tracking_id \in DOMAIN notifs :
        LET a == Attempts(tracking_id)
            message == Some(PermanentMessage(notifs[tracking_id].channel))
        IN  (Len(a) > 0 /\ a[1].error_message = message) =>
              /\ Len(a) = 1
              /\ a[1].status = "failed"
              /\ notifs[tracking_id].status = "failed"
              /\ notifs[tracking_id].failure_reason = message
              /\ Ended(tracking_id)

\* C6 happens: an e-mail of priority critical refused for good at its first
\* attempt, the clock past its first retry delay.
C6_Witness ==
    \E tracking_id \in DOMAIN notifs :
        /\ notifs[tracking_id].channel = "email"
        /\ notifs[tracking_id].priority = "critical"
        /\ Len(Attempts(tracking_id)) = 1
        /\ Attempts(tracking_id)[1].error_message = Some("Invalid email recipient")
        /\ now >= Ms(RETRY_CONFIGS.critical.delays[1])

\* C7: a notification whose every dispatch fails with a transient error ends
\* with exactly max_attempts(priority) recorded attempts and status failed.
C7_TransientExhaustion ==
    \A tracking_id \in DOMAIN notifs :
        LET a == Attempts(tracking_id)
            transient == Some(TransientMessage(notifs[tracking_id].channel))
        IN  (/\ Ended(tracking_id)
             /\ \E i \in 1..Len(a) : a[i].error_message = transient
             /\ \A i \in 1..Len(a) :
                    a[i].error_message \in {transient, Some("circuit_open")})
            => Len(a) = GetRetryPlan(notifs[tracking_id].priority).max_attempts

\* C7 diverges: a notification of priority critical, alone in the system,
\* whose three dispatches failed with the transient error, ended with four
\* attempts, the fourth refused by the breaker its own failures opened.
C7_Witness ==
    /\ Len(notifs) = 1
    /\ notifs[1].priority = "critical"
    /\ Ended(1)
    /\ Len(Attempts(1)) = 4
    /\ \A i \in 1..3 :
          Attempts(1)[i].error_message = Some(TransientMessage(notifs[1].channel))
    /\ Attempts(1)[4].error_message = Some("circuit_open")
    /\ notifs[1].failure_reason = Some("circuit_open")

\* The failures of dispatches recorded against a recipient with the
\* adapter's transient message, and the deliveries to it.
TransientFailures(recipient) ==
    UNION {{<<tracking_id, i>> : i \in {j \in 1..Len(Attempts(tracking_id)) :
                Attempts(tracking_id)[j].error_message
                    = Some(TransientMessage(notifs[tracking_id].channel))}} :
           tracking_id \in {k \in DOMAIN notifs : notifs[k].recipient = recipient}}

Deliveries(recipient) ==
    UNION {{<<tracking_id, i>> : i \in {j \in 1..Len(Attempts(tracking_id)) :
                Attempts(tracking_id)[j].status = "delivered"}} :
           tracking_id \in {k \in DOMAIN notifs : notifs[k].recipient = recipient}}

\* The step is the processing of entry e, refused by the breaker in the way
\* the pipeline has to: one failed attempt "circuit_open" of latency 0, no
\* worker starts a send, nothing is pushed and no timer is created.
RefusedStep(e) ==
    LET tracking_id == e.tracking_id
    IN  /\ delivery_attempts'[tracking_id] =
              Append(Attempts(tracking_id),
                     [attempt_number |-> notifs[tracking_id].attempts + 1,
                      status |-> "failed",
                      error_message |-> Some("circuit_open"),
                      latency_ms |-> 0])
        /\ notifs'[tracking_id].status = "failed"
        /\ workers' = workers
        /\ timers' = timers
        /\ ready_queue' = ready_queue \ {e}

\* C8: when a worker processes a notification and the breaker of its
\* recipient refuses, the worker records one failed attempt "circuit_open"
\* with latency_ms 0, invokes no adapter and re-enqueues nothing; and after
\* three transient failures against a recipient and no delivery, a
\* processing before the cooldown is over is refused.
C8_CircuitOpen ==
    [][\A e \in ready_queue \ ready_queue' :
          LET recipient == notifs[e.tracking_id].recipient
          IN  /\ ~AllowRequest(GetOrCreateCb(recipient), now).ok => RefusedStep(e)
              /\ (/\ Cardinality(TransientFailures(recipient)) >= FAILURE_THRESHOLD
                  /\ Deliveries(recipient) = {}
                  /\ now < Ms(env.cb_cooldown))
                 => RefusedStep(e)]_vars

\* C8 happens: a notification with attempts left whose last attempt is
\* "circuit_open", refused after three transient failures against its
\* recipient and before the cooldown is over, and left where it is.
C8_Witness ==
    \E tracking_id \in DOMAIN notifs :
        LET a == Attempts(tracking_id)
        IN  /\ Len(a) > 0
            /\ a[Len(a)].error_message = Some("circuit_open")
            /\ a[Len(a)].latency_ms = 0
            /\ Len(a) < GetRetryPlan(notifs[tracking_id].priority).max_attempts
            /\ Cardinality(TransientFailures(notifs[tracking_id].recipient)) = FAILURE_THRESHOLD
            /\ now < Ms(env.cb_cooldown)
            /\ Ended(tracking_id)

\* The step is a call of allow_request on the breaker driven alone.
AllowRequestCall ==
    harness'.calls = harness.calls + 1 /\ harness'.op = "allow_request"

\* C9: a breaker that starts closed is open after failure_threshold
\* consecutive failures (and closed before); while it is open and less than
\* cooldown_seconds have passed since opened_at, allow_request returns false;
\* once cooldown_seconds have passed the first allow_request returns true,
\* and every further one returns false until on_success or on_failure.
C9_Breaker ==
    /\ [](LET b == circuit_breakers[CbKey]
          IN  /\ b.state = "closed" <=> harness.failures < FAILURE_THRESHOLD
              /\ (harness.op = "on_failure" /\ harness.failures >= FAILURE_THRESHOLD)
                    => b.state = "open")
    /\ [][LET b == circuit_breakers[CbKey]
          IN  AllowRequestCall =>
                /\ (b.state = "open" /\ now - Val(b.opened_at) < Ms(b.cooldown_seconds))
                      => ~harness'.result
                /\ (b.state = "open" /\ now - Val(b.opened_at) >= Ms(b.cooldown_seconds))
                      => harness'.result
                /\ harness.claimed => ~harness'.result]_vars

\* C9 happens: after three failures and the cooldown a first allow_request
\* was granted, and the call just made, a further allow_request, was refused.
C9_Witness ==
    /\ harness.failures = FAILURE_THRESHOLD
    /\ harness.claimed
    /\ harness.op = "allow_request"
    /\ ~harness.result
    /\ circuit_breakers[CbKey].state = "half_open"

\* C10: between the admission of a half-open probe and the recording of its
\* outcome, the breaker admits no other dispatch to the same recipient: no
\* worker starts a send to a recipient while another worker is sending the
\* probe of that recipient's breaker.
C10_OneProbeInFlight ==
    [][\A w \in WorkerIds :
          (workers[w].pc # "sending" /\ workers'[w].pc = "sending") =>
             \A v \in WorkerIds \ {w} :
                ~(/\ workers[v].pc = "sending"
                  /\ workers[v].probe
                  /\ notifs[workers[v].tracking_id].recipient
                        = notifs[workers'[w].tracking_id].recipient)]_vars

\* A request whose content renders: inline content, or "welcome-push" with
\* the variable it requires.
Renders(req) ==
    \/ req.template_id = None
    \/ req.template_id = Some("welcome-push") /\ "name" \in req.variables

DeliveredAtOnce(tracking_id) ==
    /\ notifs[tracking_id].status = "delivered"
    /\ notifs[tracking_id].attempts = 1
    /\ Len(Attempts(tracking_id)) = 1

\* An attempt of the notification was refused by the breaker or failed in
\* the adapter.
RefusedOrUndelivered(tracking_id) ==
    \E i \in 1..Len(Attempts(tracking_id)) :
        /\ Attempts(tracking_id)[i].status = "failed"
        /\ Attempts(tracking_id)[i].error_message \in
              {Some("circuit_open"),
               Some(TransientMessage(notifs[tracking_id].channel))}

\* C11: with the workers running, every admitted notification whose content
\* renders (inline, or a template referred to by name with its required
\* variables) eventually is delivered with exactly one recorded attempt,
\* unless the breaker of its recipient refused it or the adapter failed.
C11_EventuallyDelivered ==
    \A tracking_id \in 1..MaxNotifs :
        (tracking_id \in DOMAIN notifs /\ Renders(notifs[tracking_id]))
            ~> (/\ tracking_id \in DOMAIN notifs
                /\ \/ DeliveredAtOnce(tracking_id)
                   \/ RefusedOrUndelivered(tracking_id))

\* A notification that refers to its template by name is delivered with one
\* attempt, and so is an inline one.
C11_Witness ==
    /\ \E tracking_id \in DOMAIN notifs :
          notifs[tracking_id].template_id # None /\ DeliveredAtOnce(tracking_id)
    /\ \E tracking_id \in DOMAIN notifs :
          notifs[tracking_id].template_id = None /\ DeliveredAtOnce(tracking_id)

\* The step records a failed attempt of the notification with the transient
\* error of its channel.
TransientFailureStep(tracking_id) ==
    /\ Len(Attempts(tracking_id)') = Len(Attempts(tracking_id)) + 1
    /\ LET last == Attempts(tracking_id)'[Len(Attempts(tracking_id)')]
       IN  /\ last.status = "failed"
           /\ last.error_message = Some(TransientMessage(notifs[tracking_id].channel))

\* C12: a notification never has more recorded attempts than max_attempts of
\* its priority; a step that records a transient failure at attempt_number
\* creates a delayed re-enqueue of the notification if and only if
\* attempt_number < max_attempts, and with the priority of the notification;
\* otherwise the notification is failed with nothing left to process it, and
\* a notification in that condition stays in it.
C12_AttemptBudget ==
    [][\A tracking_id \in DOMAIN notifs :
          LET plan == GetRetryPlan(notifs[tracking_id].priority)
              created == {t \in timers' \ timers : t.tracking_id = tracking_id}
              attempt_number == Len(Attempts(tracking_id)')
          IN  /\ Len(Attempts(tracking_id)') <= plan.max_attempts
              /\ TransientFailureStep(tracking_id) =>
                    /\ (created # {}) <=> (attempt_number < plan.max_attempts)
                    /\ \A t \in created : t.priority = notifs[tracking_id].priority
                    /\ attempt_number >= plan.max_attempts => Ended(tracking_id)'
              /\ Ended(tracking_id) => Ended(tracking_id)']_vars

\* A notification of priority normal failed twice in the adapter: the first
\* failure was followed by a re-enqueue, the second was not.
C12_Witness ==
    \E tracking_id \in DOMAIN notifs :
        /\ notifs[tracking_id].priority = "normal"
        /\ Len(Attempts(tracking_id)) = 2
        /\ \A i \in 1..2 :
              Attempts(tracking_id)[i].error_message =
                 Some(TransientMessage(notifs[tracking_id].channel))
        /\ Ended(tracking_id)

\* C13: a notification whose content fails to render (template not found,
\* required variable missing, undefined variable referenced) has no delayed
\* re-enqueue pending and at most one recorded attempt, whatever its
\* priority: the failed processing is not retried.
C13_RenderFailurePermanent ==
    \A tracking_id \in DOMAIN notifs :
        RenderContent(templates, notifs[tracking_id]) # "ok" =>
            /\ ~InTimer(tracking_id)
            /\ Len(Attempts(tracking_id)) <= 1

\* A notification that lacks a required variable of its template, and one
\* whose template refers to an undeclared variable, each have one attempt
\* recorded as failed with the message of an unexpected error and a delayed
\* re-enqueue pending.
C13_Witness ==
    \A failure \in {"missing_variables", "undefined_reference"} :
        \E tracking_id \in DOMAIN notifs :
            /\ RenderContent(templates, notifs[tracking_id]) = failure
            /\ Len(Attempts(tracking_id)) = 1
            /\ Attempts(tracking_id)[1].status = "failed"
            /\ Attempts(tracking_id)[1].error_message = Some(UnexpectedMessage)
            /\ InTimer(tracking_id)

\* The changes of status made by the step, as pairs <<before, after>>.
StatusChanges ==
    {<<notifs[tracking_id].status, notifs'[tracking_id].status>> :
        tracking_id \in {k \in DOMAIN notifs :
                            notifs'[k].status # notifs[k].status}}

\* C14: the status of a notification changes only from queued to sending
\* and from sending to delivered, failed or bounced.
C14_Lifecycle ==
    [][StatusChanges \subseteq {<<"queued", "sending">>, <<"sending", "delivered">>,
                                <<"sending", "failed">>, <<"sending", "bounced">>}]_vars

\* C14, amended: the status of a notification changes only from queued to
\* sending, from sending to delivered, failed or bounced, from queued to
\* failed (the breaker refused the first processing) and from failed to
\* sending (a re-enqueued notification is processed again).
C14_LifecycleWithRetries ==
    [][/\ StatusChanges \subseteq {<<"queued", "sending">>, <<"sending", "delivered">>,
                                   <<"sending", "failed">>, <<"sending", "bounced">>,
                                   <<"queued", "failed">>, <<"failed", "sending">>}
       /\ \A tracking_id \in DOMAIN notifs :
             /\ (notifs[tracking_id].status = "queued"
                 /\ notifs'[tracking_id].status = "failed")
                   => notifs'[tracking_id].failure_reason = Some("circuit_open")
             /\ (notifs[tracking_id].status = "failed"
                 /\ notifs'[tracking_id].status = "sending")
                   => notifs[tracking_id].attempts >= 1]_vars

\* One notification went from failed to sending (its second attempt reached
\* the adapter) and another went from queued to failed (its only attempt is
\* the breaker's refusal).
C14_Witness ==
    /\ \E tracking_id \in DOMAIN notifs :
          /\ Len(Attempts(tracking_id)) >= 2
          /\ Attempts(tracking_id)[2].error_message # Some("circuit_open")
    /\ \E tracking_id \in DOMAIN notifs :
          /\ notifs[tracking_id].status = "failed"
          /\ Len(Attempts(tracking_id)) = 1
          /\ Attempts(tracking_id)[1].error_message = Some("circuit_open")

\* C15: once stop_queue_workers has completed, no step pushes into the
\* ready queue the tracking_id of a pending delayed re-enqueue, and the
\* notifications with a pending delayed re-enqueue keep their status.
C15_ShutdownCancelsTimers ==
    [][~WorkersStarted =>
          /\ \A e \in ready_queue' \ ready_queue : ~InTimer(e.tracking_id)
          /\ \A t \in timers :
                notifs'[t.tracking_id].status = notifs[t.tracking_id].status]_vars

\* The workers are stopped and a notification whose delayed re-enqueue was
\* pending when they stopped is in the ready queue.
C15_Witness ==
    /\ ~WorkersStarted
    /\ \E e \in ready_queue :
          /\ notifs[e.tracking_id].status = "failed"
          /\ notifs[e.tracking_id].attempts >= 1

\* The enqueues made by the scans for a schedule.
Fired(schedule_id) ==
    {i \in DOMAIN scheduler.fired : scheduler.fired[i].schedule_id = schedule_id}

\* The step is a scan.
ScanStep == scheduler'.scans = scheduler.scans + 1

\* The schedule is active and its send_at, read in its zone, is not after
\* now.
SendAtReached(schedule_id) ==
    /\ schedules[schedule_id].active
    /\ ToUtc(schedules[schedule_id].send_at, schedules[schedule_id].timezone).t <= now

\* C16: a schedule without recurrence is enqueued at most once; the first
\* scan that finds it active with send_at reached enqueues one notification
\* for it, sets last_run to the time of the scan and active to false; no
\* other step enqueues anything for it.
C16_OneOffFiresOnce ==
    [][\A schedule_id \in DOMAIN schedules :
          schedules[schedule_id].recurrence = None =>
             /\ Cardinality(Fired(schedule_id)') <= 1
             /\ IF ScanStep /\ SendAtReached(schedule_id)
                THEN /\ Fired(schedule_id) = {}
                     /\ Cardinality(Fired(schedule_id)') = 1
                     /\ schedules'[schedule_id].last_run = Some(Naive(now))
                     /\ ~schedules'[schedule_id].active
                ELSE Fired(schedule_id)' = Fired(schedule_id)]_vars

\* A schedule without recurrence was enqueued once, is inactive, and two
\* more scans have been made since.
C16_Witness ==
    \E schedule_id \in DOMAIN schedules :
        /\ schedules[schedule_id].recurrence = None
        /\ ~schedules[schedule_id].active
        /\ \E i \in Fired(schedule_id) : scheduler.scans >= scheduler.fired[i].scan + 2

\* The schedule is due: active, send_at reached, and not run at this
\* occurrence (last_run is NULL or before send_at).
Due(schedule_id) ==
    /\ SendAtReached(schedule_id)
    /\ \/ schedules[schedule_id].last_run = None
       \/ Val(schedules[schedule_id].last_run).t <
             ToUtc(schedules[schedule_id].send_at, schedules[schedule_id].timezone).t

\* C17: a scan that enqueues for a schedule with a cron expression leaves it
\* active with send_at at the first occurrence of the expression, in the
\* schedule's zone, after the occurrence that fired; and every scan that
\* finds such a schedule due enqueues a notification for it.
C17_RecurringKeepsFiring ==
    [][\A schedule_id \in DOMAIN schedules :
          LET sched == schedules[schedule_id]
              period == CronPeriod(Val(sched.recurrence))
              fired_at == ToUtc(sched.send_at, sched.timezone).t
              next_at == schedules'[schedule_id].send_at.t
          IN  (sched.recurrence # None /\ Val(sched.recurrence) \in CronExpressions) =>
                 /\ Fired(schedule_id)' # Fired(schedule_id) =>
                       /\ schedules'[schedule_id].active
                       /\ next_at > fired_at
                       /\ next_at - fired_at <= period
                       /\ (next_at + UtcOffset(sched.timezone)) % period = 0
                 /\ (ScanStep /\ Due(schedule_id)) =>
                       Fired(schedule_id)' # Fired(schedule_id)]_vars

\* An hourly schedule in UTC was enqueued once, its new send_at is reached
\* and after its last run, a scan has just been made, and the scan enqueued
\* nothing for it: its processing raised.
C17_Witness ==
    \E schedule_id \in DOMAIN schedules :
        /\ schedules[schedule_id].recurrence = Some("0 * * * *")
        /\ schedules[schedule_id].timezone = "UTC"
        /\ Cardinality(Fired(schedule_id)) = 1
        /\ schedules[schedule_id].last_run # None
        /\ Due(schedule_id)
        /\ scheduler.pc = "sleep"
        /\ schedule_id \in scheduler.failed
        /\ \A i \in Fired(schedule_id) : scheduler.fired[i].scan < scheduler.scans

\* C18: over all scans, at most one notification is enqueued for one
\* schedule at one value of send_at.
C18_OccurrenceRunOnce ==
    \A i, j \in DOMAIN scheduler.fired :
        (/\ scheduler.fired[i].schedule_id = scheduler.fired[j].schedule_id
         /\ scheduler.fired[i].send_at = scheduler.fired[j].send_at) => i = j

\* A schedule whose recurrence is not a cron expression was enqueued by two
\* scans at the same send_at, and its last_run is still NULL.
C18_Witness ==
    \E schedule_id \in DOMAIN schedules :
        /\ schedules[schedule_id].recurrence = Some("every hour")
        /\ schedules[schedule_id].last_run = None
        /\ \E i, j \in Fired(schedule_id) :
              /\ scheduler.fired[i].scan < scheduler.fired[j].scan
              /\ scheduler.fired[i].send_at = scheduler.fired[j].send_at

\* The table of the retry plans: max_attempts and the delays in seconds.
PlanTable ==
    [critical |-> <<5, <<1, 5, 15, 60, 300>>>>,
     high     |-> <<3, <<5, 30, 120>>>>,
     normal   |-> <<2, <<10, 60>>>>,
     low      |-> <<1, << >>>>]

\* C19: get_retry_plan returns the plan of the table for every priority;
\* next_delay(1) is 0 and next_delay(k), for k >= 2 and k - 2 less than the
\* number of delays, is the delay at index k - 2 (counted from 0) of the
\* plan.
C19_RetryPlanTable ==
    LET delays == PlanTable[harness.priority][2]
        k == harness.attempt_number
    IN  /\ harness.op = "get_retry_plan" =>
              /\ harness.result.max_attempts = PlanTable[harness.priority][1]
              /\ harness.result.delays = delays
        /\ harness.op = "next_delay" =>
              /\ k = 1 => harness.result = 0
              /\ (k >= 2 /\ k - 2 < Len(delays)) => harness.result = Ms(delays[k - 1])

\* next_delay(6) of the plan for critical returned 300 seconds, the last
\* delay of the table.
C19_Witness ==
    /\ harness.op = "next_delay"
    /\ harness.priority = "critical"
    /\ harness.attempt_number = 6
    /\ harness.result = Ms(300)

\* C20: for every key, of the calls allow(key, 1) made at one instant at
\* most capacity return true, whatever the calls made before that instant.
C20_BurstBound ==
    \A key \in RlKeys : harness.granted[key] <= Val(rate_limiter).capacity

\* After some time has passed, capacity calls for one key returned true at
\* one instant and the next call for that key, at the same instant, returned
\* false.
C20_Witness ==
    /\ now > 0
    /\ harness.op = "allow"
    /\ ~harness.result
    /\ harness.granted[harness.key] = Val(rate_limiter).capacity

\* C21: for every key, as long as every call for the key was allow(key, 1)
\* and came at least 1/refill_rate after the call before it, on a bucket
\* that started new with a capacity of at least 1, every call returned true.
C21_SteadyRate ==
    \A key \in RlKeys : harness.spaced[key] => ~harness.refused[key]

\* Three calls for one key, each at least 1/refill_rate after the one
\* before, on a limiter of capacity 1: all returned true.
C21_Witness ==
    \E key \in RlKeys :
        /\ Val(rate_limiter).capacity = 1
        /\ harness.count[key] >= 3
        /\ harness.spaced[key]
        /\ ~harness.refused[key]

\* The batch request has been answered.
BatchAnswered == harness.op = "done"

\* Every tracking id of the response is a stored notification that is in
\* the ready queue.
BatchAdmitted ==
    /\ \A i, j \in DOMAIN harness.items :
          i # j => harness.items[i].tracking_id # harness.items[j].tracking_id
    /\ \A i \in DOMAIN harness.items :
          LET tracking_id == harness.items[i].tracking_id
          IN  /\ harness.items[i].status = "queued"
              /\ tracking_id \in DOMAIN notifs
              /\ notifs[tracking_id].status = "queued"
              /\ InQueue(tracking_id)

\* A batch of MAX_BATCH_SIZE valid items in atomic mode is answered with
\* MAX_BATCH_SIZE tracking ids, all queued, and as many notifications are
\* stored and enqueued.
BatchOfLimitAdmitted ==
    (/\ BatchAnswered
     /\ harness.size = MAX_BATCH_SIZE /\ harness.valid /\ harness.delivery_mode = "atomic")
    => /\ harness.status_code = 200
       /\ Len(harness.items) = MAX_BATCH_SIZE
       /\ Len(notifs) = MAX_BATCH_SIZE
       /\ BatchAdmitted

\* C22: a batch of more than 100 notifications is answered with status 400
\* and admits no notification; a batch of 100 valid items in atomic mode is
\* answered with 100 tracking ids, all queued, and 100 notifications are
\* stored and enqueued.
C22_BatchLimit ==
    /\ (BatchAnswered /\ harness.size > MAX_BATCH_SIZE)
         => (harness.status_code = 400 /\ notifs = << >> /\ ready_queue = {})
    /\ BatchOfLimitAdmitted

\* A batch of 101 valid items was answered, with a status other than 400.
C22_Witness ==
    /\ BatchAnswered
    /\ harness.size = MAX_BATCH_SIZE + 1 /\ harness.valid
    /\ harness.status_code = 422
    /\ notifs = << >>

\* The places of the required list whose name is not supplied.
MissingPlaces == {i \in DOMAIN harness.required : harness.required[i] \notin harness.variables}

\* The k-th least place of MissingPlaces.
MissingPlace(k) ==
    CHOOSE i \in MissingPlaces : Cardinality({j \in MissingPlaces : j <= i}) = k

\* C23: render raises the validation error exactly when some name of the
\* template's variables list is not a key of the supplied map, and the
\* error then lists exactly the missing names, in the order of the
\* template's list; when every required name is supplied, validation passes
\* (the call ends without the validation error).
C23_MissingVariables ==
    harness.op = "render" =>
        /\ (harness.result.raised = "ValueError") <=> (MissingPlaces # {})
        /\ Len(harness.result.missing) = Cardinality(MissingPlaces)
        /\ \A k \in 1..Len(harness.result.missing) :
              harness.result.missing[k] = harness.required[MissingPlace(k)]

\* A template that requires three different names was rendered with the
\* second one alone supplied: the error lists the first and the third.
C23_Witness ==
    /\ harness.op = "render"
    /\ Len(harness.required) = 3
    /\ Cardinality({harness.required[i] : i \in DOMAIN harness.required}) = 3
    /\ harness.variables = {harness.required[2]}
    /\ harness.result.raised = "ValueError"
    /\ harness.result.missing = <<harness.required[1], harness.required[3]>>

\* The step is a call of the method op on the breaker driven alone.
CbCall(op) == harness'.calls = harness.calls + 1 /\ harness'.op = op

\* C24: on a half_open breaker, on_success leaves the breaker closed with
\* failure_count 0, no opened_at and no probe in flight; on_failure leaves
\* it open with opened_at the time of the call and no probe in flight, and
\* failure_count is not one more than before.
C24_HalfOpenOutcome ==
    [][circuit_breakers[CbKey].state = "half_open" =>
         /\ CbCall("on_success") =>
              /\ circuit_breakers'[CbKey].state = "closed"
              /\ circuit_breakers'[CbKey].failure_count = 0
              /\ circuit_breakers'[CbKey].opened_at = None
              /\ ~circuit_breakers'[CbKey].half_open_probe_in_flight
         /\ CbCall("on_failure") =>
              /\ circuit_breakers'[CbKey].state = "open"
              /\ circuit_breakers'[CbKey].opened_at = Some(now)
              /\ ~circuit_breakers'[CbKey].half_open_probe_in_flight
              /\ circuit_breakers'[CbKey].failure_count
                   # circuit_breakers[CbKey].failure_count + 1]_vars

\* on_failure was just called on a half_open breaker: of the on_failure
\* calls since the last on_success one was not counted, and the breaker is
\* open since this instant, later than its first opening.
C24_Witness ==
    /\ harness.op = "on_failure"
    /\ harness.failures = FAILURE_THRESHOLD + 1
    /\ circuit_breakers[CbKey].failure_count = FAILURE_THRESHOLD
    /\ circuit_breakers[CbKey].state = "open"
    /\ circuit_breakers[CbKey].opened_at = Some(now)
    /\ ~circuit_breakers[CbKey].half_open_probe_in_flight
    /\ now >= Ms(DefaultEnv.cb_cooldown)

\* The last call was next_delay(k) with k beyond the delays of the plan.
BeyondDelays ==
    /\ harness.op = "next_delay"
    /\ harness.attempt_number - 2 >= Len(PlanTable[harness.priority][2])

\* The last delay of the plan's table in milliseconds, 1 second if the
\* table is empty.
LastDelay ==
    LET delays == PlanTable[harness.priority][2]
    IN  IF Len(delays) > 0 THEN Ms(delays[Len(delays)]) ELSE Ms(1)

\* The delay is within 20 % of middle.
Within20Percent(delay, middle) ==
    /\ 5 * delay >= 4 * middle
    /\ 5 * delay <= 6 * middle

\* C25: for k beyond the configured delays, next_delay(k) lies between
\* 0.8 base 2^n and 1.2 base 2^n, with base the last configured delay (1 if
\* there is none) and n = k - len(delays), and is not negative.
C25_BackoffInterval ==
    BeyondDelays =>
        LET n == harness.attempt_number - Len(PlanTable[harness.priority][2])
        IN  /\ Within20Percent(harness.result, LastDelay * 2 ^ n)
            /\ harness.result >= 0

\* C25 as it holds: for k beyond the configured delays, next_delay(k) lies
\* between 0.8 base 2^(n-1) and 1.2 base 2^(n-1), with base the last
\* configured delay (1 if there is none) and n = k - len(delays), and is
\* not negative.
C25_BackoffIntervalFromBase ==
    BeyondDelays =>
        LET n == harness.attempt_number - Len(PlanTable[harness.priority][2])
        IN  /\ Within20Percent(harness.result, LastDelay * 2 ^ (n - 1))
            /\ harness.result >= 0

\* next_delay(5) of the plan for high (three delays, the last 120 seconds)
\* returned 288 seconds, 1.2 times 120 times 2.
C25_Witness ==
    /\ harness.op = "next_delay"
    /\ harness.priority = "high"
    /\ harness.attempt_number = 5
    /\ harness.result = Ms(288)

\* The step records a failed attempt of the notification with the message
\* of an exception that is neither of the two channel errors.
UnexpectedFailureStep(tracking_id) ==
    /\ Len(Attempts(tracking_id)') = Len(Attempts(tracking_id)) + 1
    /\ LET last == Attempts(tracking_id)'[Len(Attempts(tracking_id)')]
       IN  /\ last.status = "failed"
           /\ last.error_message = Some(UnexpectedMessage)

\* A worker is inside the dispatch of the notification.
Dispatching(tracking_id) ==
    \E w \in WorkerIds : workers[w].pc = "sending" /\ workers[w].tracking_id = tracking_id

\* C26: a dispatch that ends in an exception other than the two channel
\* errors is handled as a transient error is: the step records one failed
\* attempt, with the number of the attempt, and leaves the notification
\* failed; the recipient's breaker is the one on_failure leaves (called on
\* the breaker as it was, or as allow_request left it when the exception
\* comes before the first await of the dispatch); a delayed re-enqueue of
\* the notification is created if and only if attempt_number < max_attempts.
\* And no dispatch ends without a new attempt row.
C26_UnexpectedAsTransient ==
    [][\A tracking_id \in DOMAIN notifs :
          LET notif == notifs[tracking_id]
              attempt_number == notif.attempts + 1
              created == {t \in timers' \ timers : t.tracking_id = tracking_id}
          IN  /\ UnexpectedFailureStep(tracking_id) =>
                    /\ Attempts(tracking_id)'[Len(Attempts(tracking_id)')].attempt_number
                         = attempt_number
                    /\ notifs'[tracking_id].status = "failed"
                    /\ notifs'[tracking_id].attempts = attempt_number
                    /\ notifs'[tracking_id].failure_reason = Some(UnexpectedMessage)
                    /\ \E b \in {GetOrCreateCb(notif.recipient),
                                  AllowRequest(GetOrCreateCb(notif.recipient), now).cb} :
                          circuit_breakers'[notif.recipient] = OnFailure(b, now)
                    /\ (created # {}) <=> (attempt_number < PlanTable[notif.priority][1])
                    /\ Cardinality(timers' \ timers) <= 1
                    /\ \A t \in created : t.priority = notif.priority
              /\ (Dispatching(tracking_id) /\ ~Dispatching(tracking_id)') =>
                    Len(Attempts(tracking_id)') = Len(Attempts(tracking_id)) + 1]_vars

\* A webhook notification of priority normal whose two dispatches both ended
\* in an unexpected exception: a re-enqueue followed the first and none the
\* second.
C26_Witness ==
    \E tracking_id \in DOMAIN notifs :
        /\ notifs[tracking_id].channel = "webhook"
        /\ notifs[tracking_id].priority = "normal"
        /\ Len(Attempts(tracking_id)) = 2
        /\ \A i \in 1..2 : Attempts(tracking_id)[i].error_message = Some(UnexpectedMessage)
        /\ Ended(tracking_id)

\* The step is the rate limiter's refusal of the entry worker w takes.
DeniedStep(w) == workers[w].pc = "idle" /\ workers'[w].pc = "rate_limited"

\* The step is the re-enqueue by worker w after the refusal.
WakeStep(w) == workers[w].pc = "rate_limited" /\ workers'[w].pc # "rate_limited"

\* C27: when the rate limiter refuses a notification, the worker puts one
\* entry for the same tracking_id into the ready queue, with the priority of
\* the entry it took and a sequence number drawn anew from the counter and
\* larger than the one of the entry it took; from the refusal to the
\* re-enqueue no attempt is recorded, the row of the notification (attempts,
\* status, failure_reason) and the delayed re-enqueues are unchanged, and
\* the worker never enters the adapter's send.
C27_RateLimitDenialFrame ==
    [][\A w \in WorkerIds :
          /\ DeniedStep(w) =>
                /\ workers'[w].tracking_id \in {e.tracking_id : e \in ready_queue \ ready_queue'}
                /\ ~ Val(rate_limiter').buckets[notifs[workers'[w].tracking_id].recipient].tokens
                       >= Ms(1)
                /\ UNCHANGED <<notifs, delivery_attempts, timers>>
          /\ WakeStep(w) =>
                /\ workers'[w].pc = "idle"
                /\ \E e \in ready_queue' \ ready_queue :
                      /\ ready_queue' = ready_queue \cup {e}
                      /\ e.tracking_id = workers[w].tracking_id
                      /\ e.priority_value = workers[w].priority
                      /\ e.priority_value
                           = PriorityValue(notifs[workers[w].tracking_id].priority)
                      /\ e.seq > workers[w].seq
                      /\ e.seq > seq_counter
                      /\ e.seq = seq_counter'
                /\ UNCHANGED <<notifs, delivery_attempts, timers, circuit_breakers,
                               rate_limiter>>]_vars

\* Two notifications for one recipient and a limiter of capacity 1: the
\* second was refused and, half a second later, put back into the queue with
\* the third sequence number, still queued and without an attempt; nothing
\* else drew a sequence number (no attempt has failed).
C27_Witness ==
    /\ now = RATE_LIMIT_SLEEP_MS
    /\ Len(notifs) = 2
    /\ \A tracking_id \in DOMAIN notifs :
          \A i \in DOMAIN Attempts(tracking_id) : Attempts(tracking_id)[i].status = "delivered"
    /\ \E e \in ready_queue :
          /\ e.seq = 3
          /\ notifs[e.tracking_id].status = "queued"
          /\ notifs[e.tracking_id].attempts = 0
          /\ Attempts(e.tracking_id) = << >>

\* The step is a call allow(key, amount) on the limiter driven alone.
RlCall(key) == harness'.calls = harness.calls + 1 /\ harness'.key = key

\* The bucket of the key before a call: the stored one, or the full bucket
\* allow creates at the time of the call.
BucketBefore(key) ==
    LET rl == Val(rate_limiter)
    IN  IF key \in DOMAIN rl.buckets THEN rl.buckets[key]
        ELSE [capacity |-> rl.capacity, refill_rate |-> rl.refill_rate,
              tokens |-> rl.capacity * 1000, last_refill |-> now]

\* C28: after every step every bucket holds between 0 and capacity tokens;
\* a call allow(key, amount), on the stored bucket or on a new one holding
\* capacity tokens, leaves last_refill at the time of the call, returns true
\* exactly when min(capacity, tokens + elapsed * refill_rate) >= amount, and
\* leaves that number of tokens less amount if it returned true and that
\* number itself if it returned false; no other bucket changes.
C28_TokenBucket ==
    [][/\ \A key \in DOMAIN Val(rate_limiter').buckets :
             /\ Val(rate_limiter').buckets[key].tokens >= 0
             /\ Val(rate_limiter').buckets[key].tokens <= Val(rate_limiter').capacity * 1000
       /\ \A key \in RlKeys :
             RlCall(key) =>
                LET before == BucketBefore(key)
                    elapsed == now - before.last_refill
                    uncapped == before.tokens + elapsed * before.refill_rate
                    refilled == IF uncapped > before.capacity * 1000
                                THEN before.capacity * 1000 ELSE uncapped
                    after == Val(rate_limiter').buckets[key]
                    amount == harness'.amount * 1000
                IN  /\ after.last_refill = now
                    /\ harness'.result <=> (refilled >= amount)
                    /\ harness'.result => after.tokens = refilled - amount
                    /\ ~harness'.result => after.tokens = refilled
                    /\ \A other \in DOMAIN Val(rate_limiter).buckets \ {key} :
                          Val(rate_limiter').buckets[other] = Val(rate_limiter).buckets[other]
      ]_vars

\* Half a second after a call emptied the bucket of a key (refill 1 token a
\* second), a call for the key was refused and left the half token the
\* refill had brought.
C28_Witness ==
    /\ harness.op = "allow"
    /\ ~harness.result
    /\ Val(rate_limiter).refill_rate = 1
    /\ Val(rate_limiter).buckets[harness.key].tokens = RATE_LIMIT_SLEEP_MS
    /\ Val(rate_limiter).buckets[harness.key].last_refill = now

\* C29: once stop_queue_workers has completed, no notification is in status
\* sending: every dispatch that a worker had marked sending has had its
\* attempt recorded (delivered or failed).
C29_ShutdownCompletesSends ==
    ~WorkersStarted =>
        \A tracking_id \in DOMAIN notifs : notifs[tracking_id].status # "sending"

\* The workers are stopped and a notification is in status sending with no
\* attempt recorded for the dispatch that marked it.
C29_Witness ==
    /\ ~WorkersStarted
    /\ \E tracking_id \in DOMAIN notifs :
          /\ notifs[tracking_id].status = "sending"
          /\ Len(Attempts(tracking_id)) = notifs[tracking_id].attempts
          /\ ~InQueue(tracking_id) /\ ~InTimer(tracking_id)

\* The worker tasks that have not ended.
LiveWorkers == {w \in WorkerIds : workers[w].pc # "stopped"}

\* The entry of the notification was taken and an exception ended its
\* processing: the row is still queued without an attempt and nothing holds
\* or will process it.
LostToException(tracking_id) ==
    /\ notifs[tracking_id].status = "queued"
    /\ Attempts(tracking_id) = << >>
    /\ ~InQueue(tracking_id) /\ ~InTimer(tracking_id)
    /\ ~Held(tracking_id) /\ ~Admitting(tracking_id)

\* C30: from start_queue_workers to stop_queue_workers every worker is
\* alive, whatever exceptions the processing of items has raised: the number
\* of live workers is QUEUE_WORKERS, and each of them waits for an entry or
\* is processing one.
C30_WorkerIsolation ==
    WorkersStarted =>
        /\ Cardinality(LiveWorkers) = env.queue_workers
        /\ \A w \in WorkerIds : workers[w].pc \in {"idle", "sending", "rate_limited"}

\* The processing of the first notification ended in an exception, and the
\* second notification, admitted after it, was delivered: a worker went on
\* to the next item, and every worker is alive.
C30_Witness ==
    /\ WorkersStarted
    /\ Cardinality(LiveWorkers) = env.queue_workers
    /\ Len(notifs) = 2
    /\ LostToException(1)
    /\ notifs[2].status = "delivered"
    /\ seq_counter = 2

\* C31: in a scan in which the processing of some schedule raises, every
\* other schedule that is due and whose own processing does not raise is
\* enqueued once and updated (last_run the time of the scan; inactive if it
\* has no recurrence, send_at the stored next occurrence of its cron
\* expression if it has one); and after the scan
\* the scheduler loop is in its sleep, from which it goes to the next scan.
C31_FailureDoesNotStopScan ==
    [][ScanStep =>
          /\ scheduler'.pc = "sleep"
          /\ \A schedule_id \in DOMAIN schedules :
                (/\ Due(schedule_id)
                 /\ schedule_id \notin scheduler'.failed
                 /\ scheduler'.failed # {}) =>
                    /\ Cardinality(Fired(schedule_id)') = Cardinality(Fired(schedule_id)) + 1
                    /\ schedules'[schedule_id].last_run = Some(Naive(now))
                    /\ IF schedules[schedule_id].recurrence = None
                       THEN ~schedules'[schedule_id].active
                       ELSE /\ schedules'[schedule_id].active
                            /\ schedules'[schedule_id].send_at =
                                 Naive(NextCronTime(
                                     ToUtc(schedules[schedule_id].send_at,
                                           schedules[schedule_id].timezone),
                                     Val(schedules[schedule_id].recurrence),
                                     schedules[schedule_id].timezone).t)]_vars

\* A scan has just been made in which the processing of one schedule raised
\* and the other schedule, without recurrence, was enqueued and set
\* inactive; and a scan was made after an earlier one in which a processing
\* raised.
C31_Witness ==
    /\ scheduler.pc = "sleep"
    /\ scheduler.scans >= 2
    /\ \E failed_id, schedule_id \in DOMAIN schedules :
          /\ failed_id # schedule_id
          /\ failed_id \in scheduler.failed
          /\ schedules[schedule_id].recurrence = None
          /\ ~schedules[schedule_id].active
          /\ \E i \in Fired(schedule_id) : scheduler.fired[i].scan = scheduler.scans
          /\ \E j \in Fired(failed_id) : scheduler.fired[j].scan < scheduler.scans
          /\ schedules[failed_id].recurrence = Some("every hour")


\* The schedule has a cron expression that croniter accepts.
ValidRecurring(schedule_id) ==
    /\ schedules[schedule_id].recurrence # None
    /\ Val(schedules[schedule_id].recurrence) \in CronExpressions

\* C32: a scan that enqueues for a schedule with a cron expression stores as
\* its new send_at the first occurrence of the expression, in the schedule's
\* zone, strictly after the time of the scan; so the new send_at is after
\* the time of the scan, however long the schedule was overdue.
C32_NextAfterNow ==
    [][\A schedule_id \in DOMAIN schedules :
          (/\ ValidRecurring(schedule_id)
           /\ Fired(schedule_id)' # Fired(schedule_id)) =>
              /\ schedules'[schedule_id].send_at.t =
                    NextCronTime(Aware(now), Val(schedules[schedule_id].recurrence),
                                 schedules[schedule_id].timezone).t
              /\ schedules'[schedule_id].send_at.t > now]_vars

\* An hourly schedule in UTC was enqueued by the last scan, made an hour or
\* more after its send_at, and its new send_at is not after the time of
\* that scan.
C32_Witness ==
    \E schedule_id \in DOMAIN schedules :
        /\ schedules[schedule_id].recurrence = Some("0 * * * *")
        /\ schedules[schedule_id].timezone = "UTC"
        /\ scheduler.pc = "sleep"
        /\ \E i \in Fired(schedule_id) :
              /\ scheduler.fired[i].scan = scheduler.scans
              /\ scheduler.fired[i].send_at.t + Hour <= now
        /\ schedules[schedule_id].send_at.t <= now

\* C33: the send_at stored by a scan that enqueues for a schedule with a
\* cron expression, read back in the schedule's zone as the next scan reads
\* it, is the instant of the occurrence that the scan computed, and the
\* zone of the schedule is unchanged.
C33_SendAtRoundTrip ==
    [][\A schedule_id \in DOMAIN schedules :
          (/\ ValidRecurring(schedule_id)
           /\ Fired(schedule_id)' # Fired(schedule_id)) =>
              /\ schedules'[schedule_id].timezone = schedules[schedule_id].timezone
              /\ ToUtc(schedules'[schedule_id].send_at, schedules'[schedule_id].timezone) =
                    NextCronTime(ToUtc(schedules[schedule_id].send_at,
                                       schedules[schedule_id].timezone),
                                 Val(schedules[schedule_id].recurrence),
                                 schedules[schedule_id].timezone)]_vars

\* An hourly schedule in Africa/Lagos was enqueued once, at send_at 01:00
\* of its zone (00:00 UTC); the occurrence computed was 02:00 of its zone
\* (01:00 UTC) and the stored send_at, read in its zone, is 00:00 UTC.
C33_Witness ==
    \E schedule_id \in DOMAIN schedules :
        /\ schedules[schedule_id].recurrence = Some("0 * * * *")
        /\ schedules[schedule_id].timezone = "Africa/Lagos"
        /\ Cardinality(Fired(schedule_id)) = 1
        /\ \E i \in Fired(schedule_id) :
              /\ scheduler.fired[i].send_at = Naive(Hour)
              /\ NextCronTime(ToUtc(scheduler.fired[i].send_at, "Africa/Lagos"),
                              "0 * * * *", "Africa/Lagos") = Aware(Hour)
        /\ ToUtc(schedules[schedule_id].send_at, "Africa/Lagos") = Aware(0)


\* C40: a scan leaves the row of every schedule whose processing raised as
\* it was before the scan (send_at, last_run and active included), whatever
\* else the scan processes and commits.
C40_FailedScheduleUnchanged ==
    [][ScanStep =>
          \A schedule_id \in scheduler'.failed :
              schedules'[schedule_id] = schedules[schedule_id]]_vars

\* The last scan raised on a schedule whose recurrence is not a cron
\* expression and enqueued for the other schedule too, and the row of the
\* former has last_run at the time of that scan.
C40_Witness ==
    /\ scheduler.pc = "sleep"
    /\ \E failed_id, schedule_id \in DOMAIN schedules :
          /\ failed_id # schedule_id
          /\ failed_id \in scheduler.failed
          /\ schedules[failed_id].recurrence = Some("every hour")
          /\ schedules[failed_id].last_run = Some(Naive(now))
          /\ \E i \in Fired(failed_id) : scheduler.fired[i].scan = scheduler.scans
          /\ \E j \in Fired(schedule_id) : scheduler.fired[j].scan = scheduler.scans


\* The thread goes from one place of enqueue_notification to another.
ClientStep(c, from, to) == clients[c].pc = from /\ clients'[c].pc = to

\* C34: every entry of the ready queue carries the tracking_id of a row of
\* the table; the first step of an admission appends one row, with a new
\* tracking_id, status queued and attempts 0, and pushes nothing; its
\* second step pushes one entry, for that tracking_id, whose row is in the
\* table as it was created, and no other entry of the queue carries that
\* tracking_id.
C34_PersistBeforePush ==
    /\ [](\A e \in ready_queue : e.tracking_id \in DOMAIN notifs)
    /\ [][\A c \in Clients :
             /\ ClientStep(c, "idle", "put") =>
                   /\ clients'[c].tracking_id \notin DOMAIN notifs
                   /\ DOMAIN notifs' = DOMAIN notifs \cup {clients'[c].tracking_id}
                   /\ notifs'[clients'[c].tracking_id].status = "queued"
                   /\ notifs'[clients'[c].tracking_id].attempts = 0
                   /\ \A t \in DOMAIN notifs : notifs'[t] = notifs[t]
                   /\ ready_queue' = ready_queue
             /\ ClientStep(c, "put", "idle") =>
                   /\ clients[c].tracking_id \in DOMAIN notifs
                   /\ notifs[clients[c].tracking_id].status = "queued"
                   /\ notifs[clients[c].tracking_id].attempts = 0
                   /\ notifs' = notifs
                   /\ ~InQueue(clients[c].tracking_id)
                   /\ ready_queue \subseteq ready_queue'
                   /\ Cardinality(ready_queue' \ ready_queue) = 1
                   /\ \A e \in ready_queue' \ ready_queue :
                         e.tracking_id = clients[c].tracking_id]_vars

\* Two notifications have been admitted: the entry of the first is in the
\* queue while the second has its row and not yet its entry.
C34_Witness ==
    /\ Len(notifs) = 2
    /\ InQueue(1)
    /\ notifs[2].status = "queued"
    /\ ~InQueue(2)
    /\ \E c \in Clients : clients[c].pc = "put" /\ clients[c].tracking_id = 2


\* The places that hold the tracking_id: the entries of the ready queue,
\* the workers processing it (in a send or in the sleep after the rate
\* limiter's refusal) and the pending delayed re-enqueues.
HeldInQueue(tracking_id) == {e \in ready_queue : e.tracking_id = tracking_id}

HeldByWorkers(tracking_id) ==
    {w \in WorkerIds : workers[w].pc \in {"sending", "rate_limited"}
                       /\ workers[w].tracking_id = tracking_id}

HeldByTimers(tracking_id) == {t \in timers : t.tracking_id = tracking_id}

\* C35: in every reachable state every tracking_id is held in at most one
\* place among the entries of the ready queue, the workers processing and
\* the pending delayed re-enqueues; and the attempts recorded for one
\* notification have pairwise different attempt numbers.
C35_HeldInOnePlace ==
    \A tracking_id \in DOMAIN notifs :
        /\ Cardinality(HeldInQueue(tracking_id)) + Cardinality(HeldByWorkers(tracking_id))
              + Cardinality(HeldByTimers(tracking_id)) <= 1
        /\ tracking_id \in DOMAIN delivery_attempts =>
              \A i, j \in DOMAIN delivery_attempts[tracking_id] :
                  delivery_attempts[tracking_id][i].attempt_number =
                     delivery_attempts[tracking_id][j].attempt_number => i = j

\* Both workers hold a notification, one in a send and one in the sleep
\* after the limiter's refusal, and the notification in the sleep has one
\* recorded attempt: it came back through a delayed re-enqueue.
C35_Witness ==
    \E v, w \in WorkerIds :
        /\ workers[v].pc = "sending"
        /\ workers[w].pc = "rate_limited"
        /\ workers[w].tracking_id \in DOMAIN delivery_attempts
        /\ Len(delivery_attempts[workers[w].tracking_id]) = 1



\* The worker ends, in this step, a processing that allow_request admitted
\* as the probe of a half-open breaker.
ProbeProcessingEnds(w) ==
    /\ workers[w].pc \in {"sending", "rate_limited"}
    /\ workers[w].probe
    /\ workers'[w].pc = "idle"

\* C36: the step that ends a processing admitted as the probe of a half-open
\* breaker records its outcome on the breaker of the recipient: the breaker
\* after the step is the result of on_success or of on_failure.
C36_ProbeResolved ==
    [][\A w \in WorkerIds :
          ProbeProcessingEnds(w) =>
              LET recipient == notifs[workers[w].tracking_id].recipient
              IN  circuit_breakers'[recipient] \in
                      {OnSuccess(circuit_breakers[recipient]),
                       OnFailure(circuit_breakers[recipient], now)}]_vars

\* The breaker of a recipient is half-open with its probe in flight, no
\* worker is processing anything, and the notification that was admitted as
\* the probe and refused by the rate limiter is back in the ready queue.
C36_Witness ==
    /\ \A w \in WorkerIds : workers[w].pc = "idle"
    /\ \E tracking_id \in DOMAIN notifs :
          /\ InQueue(tracking_id)
          /\ notifs[tracking_id].recipient \in DOMAIN circuit_breakers
          /\ circuit_breakers[notifs[tracking_id].recipient].state = "half_open"
          /\ circuit_breakers[notifs[tracking_id].recipient].half_open_probe_in_flight


\* C37: the entries of the ready queue have pairwise different sequence
\* numbers, and of two entries the one pushed later has the greater
\* sequence number.
C37_SeqDistinctIncreasing ==
    \A e, f \in ready_queue :
        /\ e # f => e.seq # f.seq
        /\ e.ord < f.ord => e.seq < f.seq

\* Two admissions ran concurrently on two HTTP threads and the entries of
\* both notifications are in the queue with the same sequence number, the
\* value of the counter.
C37_Witness ==
    /\ \A c \in Clients : clients[c].pc = "idle"
    /\ \E e, f \in ready_queue :
          /\ e.tracking_id # f.tracking_id
          /\ e.seq = f.seq
          /\ e.seq = seq_counter


\* C38: every breaker is closed, open or half-open; a closed breaker has
\* counted fewer failures than its threshold; an open breaker has its
\* opened_at set; and a probe is in flight only in a half-open breaker.
C38_BreakerInvariant ==
    \A r \in DOMAIN circuit_breakers :
        LET b == circuit_breakers[r]
        IN  /\ b.state \in {"closed", "open", "half_open"}
            /\ b.state = "closed" => b.failure_count < b.failure_threshold
            /\ b.state = "open" => b.opened_at # None
            /\ b.half_open_probe_in_flight => b.state = "half_open"

\* The breaker was opened by failures and, its cooldown over, has admitted
\* a probe: it is half-open with the probe in flight, the failures counted
\* and the time of its opening still recorded.
C38_Witness ==
    /\ harness.op = "allow_request"
    /\ harness.result
    /\ circuit_breakers[CbKey].state = "half_open"
    /\ circuit_breakers[CbKey].half_open_probe_in_flight
    /\ circuit_breakers[CbKey].failure_count >= FAILURE_THRESHOLD
    /\ circuit_breakers[CbKey].opened_at # None
    /\ now >= Val(circuit_breakers[CbKey].opened_at) + Ms(DefaultEnv.cb_cooldown)


\* C39: a step that leaves an open breaker open leaves its opened_at as it
\* was.
C39_OpenedAtKept ==
    [][\A r \in DOMAIN circuit_breakers :
          (circuit_breakers[r].state = "open" /\ circuit_breakers'[r].state = "open") =>
              circuit_breakers'[r].opened_at = circuit_breakers[r].opened_at]_vars

\* Two sends to one recipient were in flight when the breaker opened; the
\* second failed later, while the breaker was open: the breaker has counted
\* one failure more than its threshold and its opened_at is the time of
\* that failure, the present instant, after the start of the run.
C39_Witness ==
    \E r \in DOMAIN circuit_breakers :
        /\ circuit_breakers[r].state = "open"
        /\ circuit_breakers[r].failure_count = FAILURE_THRESHOLD + 1
        /\ circuit_breakers[r].opened_at = Some(now)
        /\ now > 0
        /\ \A w \in WorkerIds : workers[w].pc = "idle"

====
